---- MODULE Spec2Model ----
(***************************************************************************)
(* A model of triage-bot's agent orchestration: the retrying OpenAI call   *)
(* wrapper, the two helper agents and compile_contexts, the assistant      *)
(* driver loop, parse_openai_response, and the response callback of        *)
(* handle_chat_event_internal with its storage and chat effects.           *)
(*                                                                         *)
(* Strings whose content the code inspects (the serialized event, the      *)
(* search terms) are sequences of one-character strings.                   *)
(***************************************************************************)
EXTENDS Integers, Sequences, FiniteSets, TLC

(***************************************************************************)
(* Bounds of the model.                                                    *)
(***************************************************************************)
\* Longest list of output items in one model response.
MaxItems == 2
\* The model stops returning tool calls once the driver has sent this many
\* requests (the code itself has no such limit).
MaxRequests == 6
\* Most context entries a channel holds before the model stops asking for more.
MaxContext == 2
\* Most replies sent before the model stops replying.
MaxSent == 1
\* Most messages a channel stores when the storage runs on its own.
MaxMessages == 2
\* Most model responses one of several handlings side by side receives.
MaxRounds == 2

(***************************************************************************)
(* Program constants of call_openai_api.                                   *)
(***************************************************************************)
MAX_RETRIES == 3
RETRY_DELAY_MS == 1000

(***************************************************************************)
(* Strings.                                                                *)
(***************************************************************************)
\* str::contains: pat occurs in s as a contiguous substring.
Contains(s, pat) ==
    \E i \in 1..(Len(s) - Len(pat) + 1) : SubSeq(s, i, i + Len(pat) - 1) = pat

REMEMBER == <<"r","e","m","e","m","b","e","r">>
DIRECTIVE == <<"d","i","r","e","c","t","i","v","e">>

\* char::is_whitespace on the characters the model uses.
IsWhitespace(c) == c = " "

RECURSIVE TrimStart(_)
TrimStart(s) ==
    IF s # <<>> /\ IsWhitespace(Head(s)) THEN TrimStart(Tail(s)) ELSE s

RECURSIVE TrimEnd(_)
TrimEnd(s) ==
    IF s # <<>> /\ IsWhitespace(s[Len(s)]) THEN TrimEnd(SubSeq(s, 1, Len(s) - 1)) ELSE s

\* str::trim
Trim(s) == TrimEnd(TrimStart(s))

\* str::split(','): the pieces between commas, always at least one piece.
RECURSIVE SplitComma(_, _)
SplitComma(s, cur) ==
    IF s = <<>> THEN <<cur>>
    ELSE IF Head(s) = "," THEN <<cur>> \o SplitComma(Tail(s), <<>>)
    ELSE SplitComma(Tail(s), Append(cur, Head(s)))

\* Vec<String>::join(sep)
RECURSIVE Join(_, _)
Join(parts, sep) ==
    IF parts = <<>> THEN <<>>
    ELSE IF Len(parts) = 1 THEN parts[1]
    ELSE parts[1] \o sep \o Join(Tail(parts), sep)

\* All sequences over S of length at most n.
SeqUpTo(S, n) == UNION {[1..k -> S] : k \in 0..n}

(***************************************************************************)
(* JSON values and the typed responses of base/types.rs.                   *)
(***************************************************************************)
\* JSON null, and an absent field.
Null == "null"

Classifications == {"Bug", "Feature", "Question", "Incident", "Other"}

\* A field that a JSON object does not have, where that differs from null.
Missing == "missing"

\* An AssistantResponse value; the fields a variant does not have are Null,
\* and `arguments`, a JSON value that may itself be null, is Missing.
Response(type, thread_ts, classification, message, call_id, name, arguments) ==
    [type |-> type, thread_ts |-> thread_ts, classification |-> classification,
     message |-> message, call_id |-> call_id, name |-> name, arguments |-> arguments]

NoAction == Response("NoAction", Null, Null, Null, Null, Null, Missing)
ReplyToThread(thread_ts, classification, message) ==
    Response("ReplyToThread", thread_ts, classification, message, Null, Null, Missing)
UpdateChannelDirective(call_id, message) ==
    Response("UpdateChannelDirective", Null, Null, message, call_id, Null, Missing)
UpdateContext(call_id, message) ==
    Response("UpdateContext", Null, Null, message, call_id, Null, Missing)
McpTool(call_id, name, arguments) ==
    Response("McpTool", Null, Null, Null, call_id, name, arguments)

\* A text the model returned: raw holds its characters when the text is not
\* JSON; when it is a JSON object, obj holds the object's fields (Null where
\* a field is null or missing).
PlainText(raw) == [json |-> FALSE, raw |-> raw, obj |-> NoAction]
JsonText(obj) == [json |-> TRUE, raw |-> <<"{", "}">>, obj |-> obj]

\* serde_json::from_str::<AssistantResponse>(text), #[serde(tag = "type")]:
\* the tag selects the variant and every field of the variant must be
\* present with its type; a unit variant ignores the other fields.  The
\* `arguments: Value` of McpTool takes any JSON value, null included, but
\* has to be there.
DecodeOk(text) ==
    /\ text.json
    /\ \/ text.obj.type = "NoAction"
       \/ /\ text.obj.type = "ReplyToThread"
          /\ text.obj.thread_ts # Null
          /\ text.obj.classification \in Classifications
          /\ text.obj.message # Null
       \/ /\ text.obj.type \in {"UpdateChannelDirective", "UpdateContext"}
          /\ text.obj.call_id # Null
          /\ text.obj.message # Null
       \/ /\ text.obj.type = "McpTool"
          /\ text.obj.call_id # Null
          /\ text.obj.name # Null
          /\ text.obj.arguments # Missing

Decode(text) ==
    CASE text.obj.type = "NoAction" -> NoAction
      [] text.obj.type = "ReplyToThread" ->
            ReplyToThread(text.obj.thread_ts, text.obj.classification, text.obj.message)
      [] text.obj.type = "UpdateChannelDirective" ->
            UpdateChannelDirective(text.obj.call_id, text.obj.message)
      [] text.obj.type = "UpdateContext" ->
            UpdateContext(text.obj.call_id, text.obj.message)
      [] OTHER -> McpTool(text.obj.call_id, text.obj.name, text.obj.arguments)

\* TextOrResponse
TextItem(raw) == [t |-> "Text", text |-> raw, r |-> NoAction]
ResponseItem(r) == [t |-> "AssistantResponse", text |-> <<>>, r |-> r]

(***************************************************************************)
(* The output items of a model response (async_openai OutputContent).      *)
(***************************************************************************)
OutputText(text) == [ckind |-> "output_text", text |-> text]
Refusal == [ckind |-> "refusal", text |-> PlainText(<<>>)]

\* The arguments string of a function call: a JSON object with a string
\* field "message", or something else.
Args(message) == [json |-> TRUE, message |-> message]
BadArgs == [json |-> FALSE, message |-> Null]

Message(content) ==
    [kind |-> "message", content |-> content, name |-> Null, arguments |-> BadArgs, call_id |-> Null]
FunctionCall(name, arguments, call_id) ==
    [kind |-> "function_call", content |-> <<>>, name |-> name, arguments |-> arguments, call_id |-> call_id]
WebSearchCall ==
    [kind |-> "web_search_call", content |-> <<>>, name |-> Null, arguments |-> BadArgs, call_id |-> Null]
\* Any other kind of output item (reasoning, file search, ...).
OtherOutput ==
    [kind |-> "other", content |-> <<>>, name |-> Null, arguments |-> BadArgs, call_id |-> Null]

\* Res<Vec<TextOrResponse>>
Ok(v) == [ok |-> TRUE, v |-> v, why |-> ""]
Err(why) == [ok |-> FALSE, v |-> <<>>, why |-> why]

\* The call id of the action built for a call of a built-in tool: the call
\* id of the function call.
FunctionCallId(function_call) == function_call.call_id

\* serde_json::from_str::<ToolContextFunctionCallArgs>(arguments)
ArgsOk(arguments) == arguments.json /\ arguments.message # Null

\* A parser that takes the first content of a message and leaves the rest.
ParseContentsFirstOnly(content, result) ==
    IF content = <<>> THEN Ok(result)
    ELSE IF Head(content).ckind = "refusal" THEN Err("refused")
    ELSE Ok(Append(result,
                   IF DecodeOk(Head(content).text)
                   THEN ResponseItem(Decode(Head(content).text))
                   ELSE TextItem(Head(content).text.raw)))

\* The inner loop of parse_openai_response over the contents of one message.
RECURSIVE ParseContents(_, _)
ParseContents(content, result) ==
    IF content = <<>> THEN Ok(result)
    ELSE IF Head(content).ckind = "refusal" THEN Err("refused")
    ELSE ParseContents(Tail(content),
            Append(result,
                   IF DecodeOk(Head(content).text)
                   THEN ResponseItem(Decode(Head(content).text))
                   ELSE TextItem(Head(content).text.raw)))

RECURSIVE ParseOutputs(_, _)

\* A parser that skips a function call it does not know.
UnknownFunctionCallDropped(output, rest, result) == ParseOutputs(rest, result)

\* What parse_openai_response does with a function call whose name is not
\* one of the two built-in tools: `_ => return Err("Unknown function call.")`.
UnknownFunctionCall(output, rest, result) == Err("unknown function call")

\* The loop of parse_openai_response over the output items.
ParseOutputs(outputs, result) ==
    IF outputs = <<>> THEN Ok(result)
    ELSE LET output == Head(outputs)
             rest == Tail(outputs)
         IN CASE output.kind = "message" ->
                    LET inner == ParseContents(output.content, result)
                    IN IF inner.ok THEN ParseOutputs(rest, inner.v) ELSE inner
              [] output.kind = "function_call" ->
                    IF output.name = "set_channel_directive"
                    THEN IF ArgsOk(output.arguments)
                         THEN ParseOutputs(rest, Append(result,
                                ResponseItem(UpdateChannelDirective(FunctionCallId(output), output.arguments.message))))
                         ELSE Err("bad arguments")
                    ELSE IF output.name = "update_channel_context"
                    THEN IF ArgsOk(output.arguments)
                         THEN ParseOutputs(rest, Append(result,
                                ResponseItem(UpdateContext(FunctionCallId(output), output.arguments.message))))
                         ELSE Err("bad arguments")
                    ELSE UnknownFunctionCall(output, rest, result)
              [] OTHER -> ParseOutputs(rest, result)

parse_openai_response(response) == ParseOutputs(response.output, <<>>)

(***************************************************************************)
(* The inbound event and what the model may answer.                        *)
(***************************************************************************)
Channels == {"C1", "C2"}
BotUserId == "U12345"

\* An event as the handler receives it; serde_json::to_string(&event) is
\* what the agents see as the user message.
\* A field the serialization leaves out (an Option that is None).
Absent == <<"absent">>

\* An event in a thread carries the thread's timestamp; a top-level event
\* has no such field.
EventInThread(user, text, thread_ts) ==
    [user |-> user, text |-> text, channel |-> "C1", ts |-> "t1", thread_ts |-> thread_ts]
Event(user, text) == EventInThread(user, text, Absent)

Events ==
    { Event(<<"u","1">>, <<"h","i">>),
      Event(<<"u","1">>, <<"r","e","m","e","m","b","e","r"," ","x">>),
      Event(<<"u","1">>, <<"n","o"," ","d","i","r","e","c","t","i","v","e","s">>),
      Event(<<"u","1">>, <<"R","e","m","e","m","b","e","r">>),
      Event(<<"d","i","r","e","c","t","i","v","e">>, <<"h","i">>) }

\* serde_json::to_string(&event): {"user":"<user>","text":"<text>"}
ToJsonString(e) ==
    <<"{", "\"", "u", "s", "e", "r", "\"", ":", "\"">> \o e.user
    \o <<"\"", ",", "\"", "t", "e", "x", "t", "\"", ":", "\"">> \o e.text
    \o <<"\"", "}">>

\* A JSON object is a record over JsonKeys; a key it does not have is Absent.
JsonKeys == {"user", "text", "thread_ts"}

\* serde_json::to_value(&event)
ToValue(e) == [user |-> e.user, text |-> e.text, thread_ts |-> e.thread_ts]
\* json!({})
EmptyObject == [user |-> Absent, text |-> Absent, thread_ts |-> Absent]

\* LlmContext::new(user_message, your_notes)
LlmContextNew(user_message, your_notes) ==
    [user_message |-> user_message, your_notes |-> your_notes]

\* The directive get_or_create_channel gives a new channel.
UnsetDirective == LlmContextNew(EmptyObject, "")

\* No record under that channel id.
NoChannel == [user_message |-> EmptyObject, your_notes |-> "<no channel>"]

\* Tool names.
BuiltInTools == {"set_channel_directive", "update_channel_context"}
RegisteredTools == {"tool1"}

\* get_openai_assistant_tools: the two built-in function tools.
get_openai_assistant_tools == {"set_channel_directive", "update_channel_context"}
\* get_openai_restricted_tools: Vec::new.
get_openai_restricted_tools == {}

\* Output items the assistant model may return.
M_noaction == Message(<<OutputText(JsonText(NoAction))>>)
M_reply == Message(<<OutputText(JsonText(ReplyToThread("t1", "Bug", "m1")))>>)
M_plain == Message(<<OutputText(PlainText(<<"h","m">>))>>)
M_nullclass == Message(<<OutputText(JsonText(ReplyToThread("t1", Null, "m1")))>>)
M_refusal == Message(<<Refusal>>)
M_reply_refusal == Message(<<OutputText(JsonText(ReplyToThread("t1", "Bug", "m1"))), Refusal>>)
M_json_ctx == Message(<<OutputText(JsonText(UpdateContext("c5", "n1")))>>)
M_json_mcp == Message(<<OutputText(JsonText(McpTool("c6", "tool1", Null)))>>)
M_json_mcp_noargs == Message(<<OutputText(JsonText(McpTool("c6", "tool1", Missing)))>>)
M_plain_reply == Message(<<OutputText(PlainText(<<"o","k">>)),
                           OutputText(JsonText(ReplyToThread("t2", "Question", "m2")))>>)
F_dir == FunctionCall("set_channel_directive", Args("n1"), "c1")
F_ctx == FunctionCall("update_channel_context", Args("n1"), "c2")
F_ctx_bad == FunctionCall("update_channel_context", BadArgs, "c3")
F_unknown == FunctionCall("get_weather", Args("n1"), "c4")
F_registered == FunctionCall("tool1", Args("n1"), "c7")

OutputItems ==
    { M_noaction, M_reply, M_plain, M_nullclass, M_refusal, M_reply_refusal,
      M_json_ctx, M_json_mcp, M_json_mcp_noargs, M_plain_reply, F_dir, F_ctx, F_ctx_bad, F_unknown,
      F_registered, WebSearchCall, OtherOutput }

\* The responses the assistant model is scripted to give in the pipeline.
AssistantOutputs ==
    { <<>>, <<M_noaction>>, <<M_reply>>, <<M_plain, M_nullclass>>, <<F_dir>>, <<F_ctx>>,
      <<M_reply, F_ctx>>, <<F_ctx, F_unknown>>, <<M_reply_refusal>>,
      <<F_dir, M_reply, F_ctx_bad>>, <<F_dir, M_json_mcp, F_ctx>>, <<M_json_ctx>>,
      <<WebSearchCall, OtherOutput, M_reply>> }

\* Text outputs of the two helper agents.
T(raw) == Message(<<OutputText(PlainText(raw))>>)

WebSearchOutputs ==
    { <<WebSearchCall, T(<<"w">>)>>, <<M_refusal>> }

MessageSearchOutputs ==
    { <<>>, <<T(<<>>)>>, <<T(<<>>), T(<<>>)>>, <<T(<<" ", ",", " ">>)>>,
      <<T(<<"a">>), T(<<"b">>)>>, <<M_noaction>>, <<F_unknown>> }

(***************************************************************************)
(* Storage: search_channel_messages.                                       *)
(***************************************************************************)
\* The findings string handed to the assistant: the fixed sentinel text, or
\* the JSON serialization of a list of messages ("[]" for the empty list).
Sentinel == [kind |-> "No relevant messages found.", list |-> <<>>]
JsonList(list) == [kind |-> "json", list |-> list]

\* search_terms.split(',').map(trim).filter(non-empty).collect()
SearchTerms(search_terms) ==
    SelectSeq([i \in 1..Len(SplitComma(search_terms, <<>>)) |->
                  Trim(SplitComma(search_terms, <<>>)[i])],
              LAMBDA term : term # <<>>)

\* The store's full-text match of one term against a message text.
TermMatches(text, term) == Contains(text, term)

\* The values the index gives as the score of one matching term. The score
\* is computed by the store's full-text index (BM25) from the whole corpus
\* and is not fixed by the text and the term alone: it is one of these.
ScoreValues == {1, 2, 3}

\* What the index can answer for one query: a score for every matching pair.
Scorings(stored, terms) ==
    [{pair \in {<<stored[i], terms[k]>> : i \in DOMAIN stored, k \in DOMAIN terms} :
          TermMatches(pair[1], pair[2])} -> ScoreValues]

\* search::score(k): the score the index gives the match of term k in the
\* text, 0 when the term does not match.
TermScore(bm25, text, term) ==
    IF <<text, term>> \in DOMAIN bm25 THEN bm25[<<text, term>>] ELSE 0

\* score_list.join(" + "): `search::score(0) + search::score(1) + ...`
RECURSIVE Score(_, _, _)
Score(bm25, text, terms) ==
    IF terms = <<>> THEN 0
    ELSE TermScore(bm25, text, Head(terms)) + Score(bm25, text, Tail(terms))

\* LIMIT 50
SearchLimit == 50

\* ORDER BY score DESC: the messages of score s, then those of lower score.
RECURSIVE Ranked(_, _, _, _)
Ranked(bm25, matching, terms, s) ==
    IF s = 0 THEN <<>>
    ELSE SelectSeq(matching, LAMBDA text : Score(bm25, text, terms) = s)
         \o Ranked(bm25, matching, terms, s - 1)

\* The highest score of a list of messages.
TopScore(bm25, matching, terms) ==
    LET scores == {Score(bm25, matching[i], terms) : i \in DOMAIN matching} \cup {0}
    IN  CHOOSE top \in scores : \A score \in scores : score <= top

\* A SELECT with the WHERE clause alone: the matching messages as stored.
QueryMessagesAsStored(bm25, stored, terms) ==
    SelectSeq(stored, LAMBDA text : \E k \in 1..Len(terms) : TermMatches(text, terms[k]))

\* The SELECT of search_channel_messages: the channel's messages that match
\* at least one term, by descending score, the first 50 of them. The score
\* column is not part of a SurrealMessage and is dropped from the result.
QueryMessages(bm25, stored, terms) ==
    LET matching == SelectSeq(stored,
                        LAMBDA text : \E k \in 1..Len(terms) : TermMatches(text, terms[k]))
        ranked == Ranked(bm25, matching, terms, TopScore(bm25, matching, terms))
    IN  SubSeq(ranked, 1, IF Len(ranked) > SearchLimit THEN SearchLimit ELSE Len(ranked))

\* A search that goes to the store whatever the terms are.
search_channel_messages_querying(bm25, stored, search_terms) ==
    [result |-> JsonList(QueryMessages(bm25, stored, SearchTerms(search_terms))),
     queried |-> TRUE]

\* search_channel_messages(channel_id, search_terms) on the stored messages
\* of the channel, the index answering bm25: the result string and whether
\* the store was queried.
search_channel_messages(bm25, stored, search_terms) ==
    IF SearchTerms(search_terms) = <<>>
    THEN [result |-> JsonList(<<>>), queried |-> FALSE]
    ELSE [result |-> JsonList(QueryMessages(bm25, stored, SearchTerms(search_terms))),
          queried |-> TRUE]

\* What the index can answer for a search of the stored messages.
IndexAnswers(stored, search_terms) == Scorings(stored, SearchTerms(search_terms))

(***************************************************************************)
(* Storage: the channel record, its context entries and its messages.      *)
(***************************************************************************)
\* The store's MERGE of `data` into a stored object: every field `data` has
\* is written over the stored one, every field it does not have is kept; an
\* empty object is written as it is.
MergeObject(stored, data) ==
    IF data = EmptyObject THEN data
    ELSE [k \in JsonKeys |-> IF data[k] = Absent THEN stored[k] ELSE data[k]]

\* A get_or_create_channel that hands out a fresh channel every time.
get_or_create_channel_resetting(stored) == UnsetDirective

\* get_or_create_channel on the record of a channel: the record after the
\* call, which is also what the call returns.
get_or_create_channel(stored) ==
    IF stored = NoChannel THEN UnsetDirective ELSE stored

\* update_channel_directive on the record of a channel:
\* update(("channel", id)).merge({"channel_directive": directive}).  The
\* update of a record that does not exist changes nothing.
update_channel_directive(stored, directive) ==
    IF stored = NoChannel THEN stored
    ELSE [user_message |-> MergeObject(stored.user_message, directive.user_message),
          your_notes |-> directive.your_notes]

InsertAt(entries, i, entry) ==
    SubSeq(entries, 1, i - 1) \o <<entry>> \o SubSeq(entries, i, Len(entries))

\* An add_channel_context that keeps the newest entry only.
add_channel_context_replacing(entries, entry) == { <<entry>> }

\* An add_channel_context that writes the new entry over the last one
\* stored.
add_channel_context_same_slot(entries, entry) ==
    { IF entries = <<>> THEN <<entry>>
      ELSE SubSeq(entries, 1, Len(entries) - 1) \o <<entry>> }

\* add_channel_context on the entries of a channel, listed as
\* get_channel_context selects them.  The SELECT has no ORDER BY and the
\* entry and its has_context edge get generated ids, so the place of the new
\* entry among the old ones is not determined by the code.
add_channel_context(entries, entry) ==
    { InsertAt(entries, i, entry) : i \in 1..(Len(entries) + 1) }

\* Every record of a table, whatever channel it is related to.
AnyChannel(table, channel_id) ==
    LET RECURSIVE All(_)
        All(S) == IF S = {} THEN <<>>
                  ELSE LET c == CHOOSE x \in S : TRUE IN table[c] \o All(S \ {c})
    IN  All(DOMAIN table)

\* `type::thing('channel', $channel_id)->has_context->context` and
\* `type::thing('channel', $channel_id)->has_message.out.id`: the records
\* of a table that an edge relates to the channel.  The tables are kept
\* by the channel their records were related to when they were created.
RelatedTo(table, channel_id) == table[channel_id]

\* get_channel_context: the serialization of the selected entries.
get_channel_context(entries) == JsonList(entries)

\* add_channel_message on the messages of a channel.
add_channel_message(stored, text) == Append(stored, text)

(***************************************************************************)
(* State.                                                                  *)
(***************************************************************************)
VARIABLES
    event,          \* the event being handled
    pc,             \* where handle_chat_event_internal stands
    error,          \* the step whose error ended the handling, "" if none
    channel,        \* storage: channel id -> its directive, or NoChannel
    context,        \* storage: channel id -> its context entries, as the store lists them
    message,        \* storage: channel id -> the texts of its stored messages
    task,           \* the two helper tasks spawned by compile_contexts
    call,           \* call_openai_api invocations, per caller
    searches,       \* number of search_channel_messages calls
    queries,        \* number of message queries the store executed
    assistant_context, \* the AssistantContext compile_contexts returned
    request_queue,  \* the driver's VecDeque of requests
    request,        \* the request the driver popped last
    response,       \* the response the driver received last
    parsed,         \* the result of parsing it
    pending,        \* the responses the callback has still to dispatch
    messages,       \* the callback's list of function_call_output values
    requests,       \* number of requests the driver sent to call_openai_api
    dispatched,     \* number of invocations of the response callback
    followups,      \* number of callback returns that carried a follow-up
    chat,           \* the calls made on the chat client, in order
    tool_calls,     \* number of registry tool invocations
    db_op,          \* the storage operation performed last, when run on its own
    before,         \* the storage as it was before that operation
    returned,       \* what that operation returned
    written,        \* channel id -> the directive handed to the last update applied
    created,        \* channel id -> the context entries added, in creation order
    posted,         \* channel id -> the message texts added, in creation order
    started,        \* the steps the handling has started, in order
    mcp,            \* the tool registry client and its construction
    push,           \* the push events delivered and what handle_push_event started
    attempts,       \* the outcomes of a wrapper invocation's attempts, in order
    handling        \* the handlings of several events, when run side by side

vars == <<event, pc, error, channel, context, message, task, call, searches, queries,
          assistant_context, request_queue, request, response, parsed, pending,
          messages, requests, dispatched, followups, chat, tool_calls,
          db_op, before, returned, written, created, posted, started, mcp, push,
          attempts, handling>>

traceVars == <<db_op, before, returned, written, created, posted, attempts, handling>>
givenVars == <<event, mcp, push>>
handlerVars == <<givenVars, started, pc, error, task, call, searches, queries, assistant_context,
                 request_queue, request, response, parsed, pending, messages,
                 requests, dispatched, followups, chat, tool_calls>>
dbVars == <<channel, context, message>>
helperVars == <<task, searches, queries, assistant_context>>
driverVars == <<request_queue, request, response, parsed, requests, followups>>
callbackVars == <<pending, messages, dispatched, chat, tool_calls>>

Callers == {"web", "msg", "asst"}
Helpers == {"web", "msg"}

NoResponse == [id |-> 0, output |-> <<>>]
NoRequest == [previous_response_id |-> 0, input |-> <<>>, tools |-> {}, initial |-> FALSE]
NotParsed == [ok |-> FALSE, v |-> <<>>, why |-> "not parsed"]
NoContext == [user_message |-> <<>>, web_search_context |-> <<>>, message_search_context |-> Sentinel]

IdleCall == [st |-> "idle", retries |-> 0, calls |-> 0, all_timeout |-> TRUE, slept |-> <<>>, response |-> NoResponse]
IdleTask == [st |-> "idle", search_terms |-> <<>>, res |-> Ok(<<>>)]

\* No storage operation run on its own yet, nothing written, no attempt made,
\* no handlings side by side.
NoOp == [name |-> "", channel |-> "", arg |-> <<>>]
Unwritten == [user_message |-> EmptyObject, your_notes |-> "<unwritten>"]
Storage == [channel |-> channel, context |-> context, message |-> message]
EmptyStorage == [channel |-> [c \in Channels |-> NoChannel],
                 context |-> [c \in Channels |-> <<>>],
                 message |-> [c \in Channels |-> <<>>]]
InitTrace ==
    /\ db_op = NoOp
    /\ before = EmptyStorage
    /\ returned = Ok(<<>>)
    /\ written = [c \in Channels |-> Unwritten]
    /\ created = [c \in Channels |-> <<>>]
    /\ posted = [c \in Channels |-> <<>>]
    /\ attempts = <<>>
    /\ handling = <<>>

\* The tool registry client before McpClient::new has been called.
NoRegistry == [ok |-> FALSE, v |-> <<>>, why |-> "not constructed"]
McpAtRest == [stage |-> "rest", servers |-> <<>>, progress |-> <<>>,
              result |-> NoRegistry]

\* No push event delivered.
PushAtRest == [deliveries |-> <<>>, at |-> "idle", handled |-> <<>>]

Init ==
    /\ event \in Events
    /\ mcp = McpAtRest
    /\ push = PushAtRest
    /\ started = <<>>
    /\ pc = "get_or_create_channel"
    /\ error = ""
    /\ channel \in { [c \in Channels |-> IF c = event.channel THEN stored ELSE NoChannel]
                      : stored \in {NoChannel, UnsetDirective} }
    /\ context = [c \in Channels |-> <<>>]
    /\ message = [c \in Channels |-> << <<"a"," ","c">> >>]
    /\ task = [t \in Helpers |-> IdleTask]
    /\ call = [c \in Callers |-> IdleCall]
    /\ searches = 0
    /\ queries = 0
    /\ assistant_context = NoContext
    /\ request_queue = <<>>
    /\ request = NoRequest
    /\ response = NoResponse
    /\ parsed = NotParsed
    /\ pending = <<>>
    /\ messages = <<>>
    /\ requests = 0
    /\ dispatched = 0
    /\ followups = 0
    /\ chat = <<>>
    /\ tool_calls = 0
    /\ InitTrace

\* A handling that goes on with the next request when a tool fails.
FailUnlessTool(step) ==
    /\ pc' = IF step = "call_tool" THEN "loop" ELSE "done_err"
    /\ error' = step

\* A handling that records the error of a step and goes on.
FailAndGoOn(step) == pc' = pc /\ error' = step

\* The handling ends with an error from the named step.
Fail(step) == pc' = "done_err" /\ error' = step

(***************************************************************************)
(* call_openai_api: the retrying call wrapper.                             *)
(***************************************************************************)
RECURSIVE Pow2(_)
Pow2(n) == IF n = 0 THEN 1 ELSE 2 * Pow2(n - 1)

\* What the model returns to the assistant is limited by the bounds of the
\* model: no tool call once MaxRequests requests were sent, no further
\* context entry or reply once MaxContext or MaxSent is reached.
AsksTool(out) ==
    \E i \in 1..Len(out) : out[i].kind = "function_call" \/ out[i] \in {M_json_ctx, M_json_mcp}
AsksContext(out) == \E i \in 1..Len(out) : out[i] \in {F_ctx, M_json_ctx}
Replies(out) == \E i \in 1..Len(out) : out[i] \in {M_reply, M_reply_refusal}
Sends(log) == SelectSeq(log, LAMBDA c : c.op = "send_message" /\ c.ok)

OutputsFor(c) ==
    CASE c = "web" -> WebSearchOutputs
      [] c = "msg" -> MessageSearchOutputs
      [] OTHER -> { out \in AssistantOutputs :
                      /\ AsksTool(out) => requests < MaxRequests
                      /\ AsksContext(out) => Len(context[event.channel]) < MaxContext
                      /\ Replies(out) => Len(Sends(chat)) < MaxSent }

\* `let mut retries = 0;` on entry.
StartCall == [st |-> "attempt", retries |-> 0, calls |-> 0, all_timeout |-> TRUE,
              slept |-> <<>>, response |-> NoResponse]

\* A wrapper that gives up at the first failure.
RetriesExhaustedAtOnce(retries) == TRUE

\* The test that ends the retries: `if retries >= MAX_RETRIES { return Err }`.
RetriesExhausted(retries) == retries >= MAX_RETRIES

\* A delay that grows by the base with every retry.
RetryDelayLinear(retries) == RETRY_DELAY_MS * retries

\* The delay before the next attempt: RETRY_DELAY_MS * 2^(retries - 1).
RetryDelay(retries) == RETRY_DELAY_MS * Pow2(retries - 1)

\* A wrapper that goes round the loop again after an answer.
AfterSuccessGoesOn(w, resp) == [w EXCEPT !.calls = @ + 1, !.response = resp]

\* The wrapper after an attempt that was answered in time:
\* `Ok(Ok(response)) => return Ok(response)`.
AfterSuccess(w, resp) == [w EXCEPT !.st = "ok", !.calls = @ + 1, !.response = resp]

\* The wrapper after an attempt that failed or timed out: it gives up, or
\* counts the retry, sleeps and goes round again.  Both arms use `retries`.
AfterFailure(w, timed_out) ==
    IF RetriesExhausted(w.retries)
    THEN [w EXCEPT !.st = "err", !.calls = @ + 1, !.all_timeout = @ /\ timed_out]
    ELSE [w EXCEPT !.retries = @ + 1, !.calls = @ + 1, !.all_timeout = @ /\ timed_out,
                   !.slept = Append(@, RetryDelay(w.retries + 1))]

\* One iteration of the loop: the request is sent and answered in time.
AttemptOk(c) ==
    /\ call[c].st = "attempt"
    /\ \E out \in OutputsFor(c) :
          call' = [call EXCEPT ![c] = AfterSuccess(@, [id |-> requests, output |-> out])]
    /\ UNCHANGED <<traceVars, givenVars, started, pc, error, dbVars, helperVars, driverVars, callbackVars>>

\* One iteration of the loop: the request fails or times out; the wrapper
\* gives up, or sleeps and goes round again.
AttemptFails(c) ==
    /\ call[c].st = "attempt"
    /\ \E timed_out \in BOOLEAN :
          call' = [call EXCEPT ![c] = AfterFailure(@, timed_out)]
    /\ UNCHANGED <<traceVars, givenVars, started, pc, error, dbVars, helperVars, driverVars, callbackVars>>

(***************************************************************************)
(* handle_chat_event_internal up to compile_contexts.                      *)
(***************************************************************************)
\* db.get_or_create_channel(&channel_id).await?, first request:
\* `self.select(("channel", channel_id)).await?`
GetOrCreateChannel ==
    /\ pc = "get_or_create_channel"
    /\ started' = started \o <<"get_or_create_channel">>
    /\ \/ Fail("get_or_create_channel")
       \/ /\ channel[event.channel] # NoChannel
          /\ pc' = "get_channel_context"
          /\ UNCHANGED error
       \/ /\ channel[event.channel] = NoChannel
          /\ pc' = "create_channel"
          /\ UNCHANGED error
    /\ UNCHANGED <<traceVars, givenVars, dbVars, helperVars, call, driverVars, callbackVars>>

\* The message-storage task of the same message calls get_or_create_channel
\* too, and its create can come between the select and the create of this
\* handling.
StorageTaskCreatesChannel ==
    /\ pc = "create_channel"
    /\ channel[event.channel] = NoChannel
    /\ channel' = [channel EXCEPT ![event.channel] = get_or_create_channel(@)]
    /\ UNCHANGED <<traceVars, givenVars, started, pc, error, context, message, helperVars, call,
                   driverVars, callbackVars>>

\* get_or_create_channel, second request:
\* `self.create(("channel", channel_id)).content(new_channel).await?`, which
\* the store rejects when the record exists by now.
CreateChannel ==
    /\ pc = "create_channel"
    /\ IF channel[event.channel] = NoChannel
       THEN \/ /\ channel' = [channel EXCEPT ![event.channel] = get_or_create_channel(@)]
               /\ pc' = "get_channel_context"
               /\ UNCHANGED error
            \/ Fail("get_or_create_channel") /\ UNCHANGED channel
       ELSE Fail("get_or_create_channel") /\ UNCHANGED channel
    /\ UNCHANGED <<traceVars, givenVars, started, context, message, helperVars, call, driverVars,
                   callbackVars>>

\* db.get_channel_context(&channel_id).await?
GetChannelContext ==
    /\ pc = "get_channel_context"
    /\ started' = started \o <<"get_channel_context">>
    /\ \/ Fail("get_channel_context")
       \/ pc' = "get_thread_context" /\ UNCHANGED error
    /\ UNCHANGED <<traceVars, givenVars, dbVars, helperVars, call, driverVars, callbackVars>>

\* chat.get_thread_context(&channel_id, &thread_ts).await?
GetThreadContext ==
    /\ pc = "get_thread_context"
    /\ started' = started \o <<"get_thread_context">>
    /\ \/ Fail("get_thread_context") /\ UNCHANGED chat
       \/ /\ pc' = "compile_contexts"
          /\ UNCHANGED <<error, chat>>
    /\ UNCHANGED <<traceVars, givenVars, dbVars, helperVars, call, driverVars, pending, messages,
                   dispatched, tool_calls>>

(***************************************************************************)
(* compile_contexts: the two helper tasks and the join.                    *)
(***************************************************************************)
\* Both tokio::spawn calls; each task starts with its model call.
SpawnHelpers ==
    /\ pc = "compile_contexts"
    /\ started' = started \o <<"web_search_agent", "message_search_agent">>
    /\ task' = [t \in Helpers |-> [IdleTask EXCEPT !.st = "llm"]]
    /\ call' = [c \in Callers |-> IF c \in Helpers THEN StartCall ELSE call[c]]
    /\ pc' = "join"
    /\ UNCHANGED <<traceVars, givenVars, error, dbVars, searches, queries, assistant_context,
                   driverVars, callbackVars>>

\* The Text items of a parsed response, in order.
Texts(items) ==
    [i \in 1..Len(SelectSeq(items, LAMBDA item : item.t = "Text")) |->
        SelectSeq(items, LAMBDA item : item.t = "Text")[i].text]

\* The separators of the two helpers' joins: "\n\n" and ", ".
WebSeparator == <<"\n", "\n">>
TermSeparator == <<",", " ">>

\* A task that queries the storage whatever the terms are.
ShouldSearchAlways(search_terms) == TRUE

\* Whether the message-search task queries the storage: `!search_terms.is_empty()`.
ShouldSearch(search_terms) == search_terms # <<>>

\* get_web_search_agent_response returns to the web-search task.
WebSearchReturns ==
    /\ task["web"].st = "llm"
    /\ call["web"].st \in {"ok", "err"}
    /\ LET p == parse_openai_response(call["web"].response)
       IN task' = [task EXCEPT !["web"].st = "done",
                      !["web"].res =
                          IF call["web"].st = "err" THEN Err("call_openai_api")
                          ELSE IF ~p.ok THEN Err("parse_openai_response")
                          ELSE Ok(Join(Texts(p.v), WebSeparator))]
    /\ call' = [call EXCEPT !["web"] = IdleCall]
    /\ UNCHANGED <<traceVars, givenVars, started, pc, error, dbVars, searches, queries, assistant_context,
                   driverVars, callbackVars>>

\* get_message_search_agent_response returns to the message-search task.
MessageSearchReturns ==
    /\ task["msg"].st = "llm"
    /\ call["msg"].st \in {"ok", "err"}
    /\ LET p == parse_openai_response(call["msg"].response)
           search_terms == Join(Texts(p.v), TermSeparator)
       IN task' = [task EXCEPT !["msg"] =
                      IF call["msg"].st = "err"
                      THEN [st |-> "done", search_terms |-> <<>>, res |-> Err("call_openai_api")]
                      ELSE IF ~p.ok
                      THEN [st |-> "done", search_terms |-> <<>>, res |-> Err("parse_openai_response")]
                      ELSE IF ShouldSearch(search_terms)
                      THEN [st |-> "search", search_terms |-> search_terms, res |-> Ok(<<>>)]
                      ELSE [st |-> "done", search_terms |-> search_terms, res |-> Ok(Sentinel)]]
    /\ call' = [call EXCEPT !["msg"] = IdleCall]
    /\ UNCHANGED <<traceVars, givenVars, started, pc, error, dbVars, searches, queries, assistant_context,
                   driverVars, callbackVars>>

\* db_clone.search_channel_messages(&channel_id_clone, &search_terms).await?
MessageSearchQuery ==
    /\ task["msg"].st = "search"
    /\ searches' = searches + 1
    /\ \E bm25 \in IndexAnswers(RelatedTo(message, event.channel), task["msg"].search_terms) :
       LET found == search_channel_messages(bm25, RelatedTo(message, event.channel),
                                            task["msg"].search_terms)
       IN \/ /\ task' = [task EXCEPT !["msg"].st = "done", !["msg"].res = Ok(found.result)]
             /\ queries' = queries + (IF found.queried THEN 1 ELSE 0)
          \/ /\ found.queried
             /\ task' = [task EXCEPT !["msg"].st = "done",
                                     !["msg"].res = Err("search_channel_messages")]
             /\ queries' = queries + 1
    /\ UNCHANGED <<traceVars, givenVars, started, pc, error, dbVars, call, assistant_context, driverVars, callbackVars>>

\* A compile_contexts that goes on without the message-search findings.
CompileResultDegraded(web, msg) ==
    IF ~web.ok THEN Err(web.why)
    ELSE Ok([user_message |-> ToJsonString(event),
             web_search_context |-> web.v,
             message_search_context |-> IF msg.ok THEN msg.v ELSE Sentinel])

\* The result of compile_contexts once both tasks are done:
\* `web_search_result??` then `message_search_result??`, then the context.
CompileResult(web, msg) ==
    IF ~web.ok THEN Err(web.why)
    ELSE IF ~msg.ok THEN Err(msg.why)
    ELSE Ok([user_message |-> ToJsonString(event),
             web_search_context |-> web.v,
             message_search_context |-> msg.v])

\* A join that returns as soon as one of the tasks has failed.
JoinReadyFailFast ==
    \/ \A t \in Helpers : task[t].st = "done"
    \/ \E t \in Helpers : task[t].st = "done" /\ ~task[t].res.ok

\* futures::future::join(..).await returns when both tasks have finished.
JoinReady == \A t \in Helpers : task[t].st = "done"

\* futures::future::join(web_search_task, message_search_task).await, and the
\* `?` on compile_contexts in the handler.
JoinHelpers ==
    /\ pc = "join"
    /\ JoinReady
    /\ LET compiled == CompileResult(task["web"].res, task["msg"].res)
       IN IF compiled.ok
          THEN /\ assistant_context' = compiled.v
               /\ pc' = "get_assistant_agent_response"
               /\ UNCHANGED error
          ELSE /\ Fail("compile_contexts")
               /\ UNCHANGED assistant_context
    /\ UNCHANGED task
    /\ UNCHANGED <<traceVars, givenVars, started, dbVars, call, searches, queries, driverVars, callbackVars>>

(***************************************************************************)
(* get_assistant_agent_response: the assistant driver.                     *)
(***************************************************************************)
\* A tool policy that looks for "remember" alone.
AllowedToolsRememberOnly(user_message) ==
    IF Contains(user_message, REMEMBER)
    THEN get_openai_assistant_tools
    ELSE get_openai_restricted_tools

\* The tools of the initial request: the built-in tools only when the user
\* message contains "remember" or "directive".
AllowedTools(user_message) ==
    IF Contains(user_message, REMEMBER) \/ Contains(user_message, DIRECTIVE)
    THEN get_openai_assistant_tools
    ELSE get_openai_restricted_tools

\* The initial request is built and put on the queue.
DriverStart ==
    /\ pc = "get_assistant_agent_response"
    /\ started' = started \o <<"assistant_agent">>
    /\ request_queue' = <<[previous_response_id |-> 0,
                           input |-> <<assistant_context>>,
                           tools |-> AllowedTools(assistant_context.user_message),
                           initial |-> TRUE]>>
    /\ pc' = "loop"
    /\ UNCHANGED <<traceVars, givenVars, error, dbVars, helperVars, call, request, response, parsed,
                   requests, followups, callbackVars>>

\* `while let Some(request) = request_queue.pop_front()`: the next request
\* goes to call_openai_api, or the queue is empty and the driver returns Ok.
DriverPop ==
    /\ pc = "loop"
    /\ IF request_queue # <<>>
       THEN /\ request' = Head(request_queue)
            /\ request_queue' = Tail(request_queue)
            /\ call' = [call EXCEPT !["asst"] = StartCall]
            /\ requests' = requests + 1
            /\ pc' = "call_openai_api"
       ELSE /\ pc' = "done_ok"
            /\ UNCHANGED <<request, request_queue, call, requests>>
    /\ UNCHANGED <<traceVars, givenVars, started, error, dbVars, helperVars, response, parsed, followups, callbackVars>>

\* A driver that hands every text over as a reply to the thread.
ResponsesTextAsReply(items) ==
    [i \in 1..Len(items) |->
        IF items[i].t = "AssistantResponse" THEN items[i].r
        ELSE ReplyToThread("t1", "Question", "m1")]

\* A driver that hands the actions over last one first.
ResponsesReversed(items) ==
    LET found == SelectSeq(items, LAMBDA item : item.t = "AssistantResponse")
    IN  [i \in 1..Len(found) |-> found[Len(found) + 1 - i].r]

\* The AssistantResponse items of a parsed response, in order.
Responses(items) ==
    [i \in 1..Len(SelectSeq(items, LAMBDA item : item.t = "AssistantResponse")) |->
        SelectSeq(items, LAMBDA item : item.t = "AssistantResponse")[i].r]

\* A driver that hands over whatever was parsed, error or not.
CallbackInvokedAlways(p) == TRUE

\* Whether the driver hands a parse result to the callback:
\* `parse_openai_response(&response)?` returns from the driver on Err.
CallbackInvoked(p) == p.ok

\* call_openai_api returned: `?`, the parse, and the call of the callback.
DriverResponse ==
    /\ pc = "call_openai_api"
    /\ call["asst"].st \in {"ok", "err"}
    /\ call' = [call EXCEPT !["asst"] = IdleCall]
    /\ IF call["asst"].st = "err"
       THEN /\ Fail("call_openai_api")
            /\ UNCHANGED <<response, parsed, pending, messages, dispatched>>
       ELSE LET p == parse_openai_response(call["asst"].response)
            IN /\ response' = call["asst"].response
               /\ parsed' = p
               /\ IF CallbackInvoked(p)
                  THEN /\ pending' = Responses(p.v)
                       /\ messages' = <<>>
                       /\ dispatched' = dispatched + 1
                       /\ pc' = "response_callback"
                       /\ UNCHANGED error
                  ELSE /\ Fail("parse_openai_response")
                       /\ UNCHANGED <<pending, messages, dispatched>>
    /\ UNCHANGED <<traceVars, givenVars, started, dbVars, helperVars, request_queue, request, requests,
                   followups, chat, tool_calls>>

(***************************************************************************)
(* The response callback of handle_chat_event_internal.                    *)
(***************************************************************************)
\* A function_call_output that does not say which call it answers.
FunctionCallOutputNoId(call_id, output) ==
    [type |-> "function_call_output", call_id |-> Null, output |-> output]

\* json!({"type": "function_call_output", "call_id": .., "output": ..})
FunctionCallOutput(call_id, output) ==
    [type |-> "function_call_output", call_id |-> call_id, output |-> output]

ChatCall(op, thread_ts, text, ok) ==
    [op |-> op, channel |-> event.channel, thread_ts |-> thread_ts, text |-> text, ok |-> ok]

\* The emoji of a classification.
Emoji(classification) ==
    CASE classification = "Question" -> "question"
      [] classification = "Feature" -> "bulb"
      [] classification = "Bug" -> "bug"
      [] classification = "Incident" -> "warning"
      [] OTHER -> "grey_question"

\* AssistantResponse::NoAction => warn!
DispatchNoAction ==
    /\ pc = "response_callback" /\ pending # <<>>
    /\ Head(pending).type = "NoAction"
    /\ pending' = Tail(pending)
    /\ UNCHANGED <<traceVars, givenVars, started, pc, error, dbVars, helperVars, call, driverVars, messages,
                   dispatched, chat, tool_calls>>

\* AssistantResponse::UpdateChannelDirective: db.update_channel_directive
DispatchUpdateChannelDirective ==
    /\ pc = "response_callback" /\ pending # <<>>
    /\ Head(pending).type = "UpdateChannelDirective"
    /\ \/ /\ channel' = [channel EXCEPT ![event.channel] =
                            update_channel_directive(@,
                                LlmContextNew(ToValue(event), Head(pending).message))]
          /\ messages' = Append(messages, FunctionCallOutput(Head(pending).call_id,
                                    "Channel directive updated successfully."))
          /\ pending' = Tail(pending)
          /\ UNCHANGED <<pc, error>>
       \/ /\ Fail("update_channel_directive")
          /\ UNCHANGED <<channel, messages, pending>>
    /\ UNCHANGED <<traceVars, givenVars, started, context, message, helperVars, call, driverVars, dispatched,
                   chat, tool_calls>>

\* AssistantResponse::UpdateContext: db.add_channel_context
DispatchUpdateContext ==
    /\ pc = "response_callback" /\ pending # <<>>
    /\ Head(pending).type = "UpdateContext"
    /\ \/ /\ \E entries \in add_channel_context(context[event.channel],
                                LlmContextNew(ToValue(event), Head(pending).message)) :
                context' = [context EXCEPT ![event.channel] = entries]
          /\ messages' = Append(messages, FunctionCallOutput(Head(pending).call_id,
                                    "Context updated successfully."))
          /\ pending' = Tail(pending)
          /\ UNCHANGED <<pc, error>>
       \/ /\ Fail("add_channel_context")
          /\ UNCHANGED <<context, messages, pending>>
    /\ UNCHANGED <<traceVars, givenVars, started, channel, message, helperVars, call, driverVars, dispatched,
                   chat, tool_calls>>

\* AssistantResponse::McpTool: mcp.call_tool(&name, &arguments).await?
DispatchMcpTool ==
    /\ pc = "response_callback" /\ pending # <<>>
    /\ Head(pending).type = "McpTool"
    /\ tool_calls' = tool_calls + 1
    /\ \/ /\ messages' = Append(messages, FunctionCallOutput(Head(pending).call_id, "tool result"))
          /\ pending' = Tail(pending)
          /\ UNCHANGED <<pc, error>>
       \/ /\ Fail("call_tool")
          /\ UNCHANGED <<messages, pending>>
    /\ UNCHANGED <<traceVars, givenVars, started, dbVars, helperVars, call, driverVars, dispatched, chat>>

\* The callback is running: it is between two actions, or between the two
\* requests of a ReplyToThread.
InCallback == pc \in {"response_callback", "send_message"}

\* A ReplyToThread whose reaction is awaited with `?`: a failed reaction
\* ends the dispatch before the message is sent.
DispatchReplyToThreadReactionChecked ==
    /\ pc = "response_callback" /\ pending # <<>>
    /\ Head(pending).type = "ReplyToThread"
    /\ \E reacted \in BOOLEAN :
          /\ chat' = Append(chat, ChatCall("react_to_message", Head(pending).thread_ts,
                                           Emoji(Head(pending).classification), reacted))
          /\ IF reacted THEN pc' = "send_message" /\ UNCHANGED error
                        ELSE Fail("react_to_message")
    /\ UNCHANGED <<traceVars, givenVars, started, dbVars, helperVars, call, driverVars, pending,
                   messages, dispatched, tool_calls>>

\* AssistantResponse::ReplyToThread, first request to the chat service:
\* `let _ = chat.react_to_message(&channel_id, &thread_ts, emoji).await;`,
\* whose failure is ignored.
DispatchReplyToThread ==
    /\ pc = "response_callback" /\ pending # <<>>
    /\ Head(pending).type = "ReplyToThread"
    /\ \E reacted \in BOOLEAN :
          chat' = Append(chat, ChatCall("react_to_message", Head(pending).thread_ts,
                                        Emoji(Head(pending).classification), reacted))
    /\ pc' = "send_message"
    /\ UNCHANGED <<traceVars, givenVars, started, error, dbVars, helperVars, call, driverVars,
                   pending, messages, dispatched, tool_calls>>

\* AssistantResponse::ReplyToThread, second request:
\* `chat.send_message(&channel_id, &thread_ts, &message).await?;`
DispatchSendMessage ==
    /\ pc = "send_message"
    /\ \E sent \in BOOLEAN :
          /\ chat' = Append(chat, ChatCall("send_message", Head(pending).thread_ts,
                                           Head(pending).message, sent))
          /\ IF sent
             THEN pending' = Tail(pending) /\ pc' = "response_callback" /\ UNCHANGED error
             ELSE Fail("send_message") /\ UNCHANGED pending
    /\ UNCHANGED <<traceVars, givenVars, started, dbVars, helperVars, call, driverVars, messages,
                   dispatched, tool_calls>>

\* What the callback hands back to the driver: the function_call_output
\* values as the follow-up payload, or nothing when there is none.
FollowUp(outputs) == IF outputs = <<>> THEN <<>> ELSE <<outputs>>

\* A driver that queues a continuation request after every callback.
QueueAfterCallbackAlways(queue, follow_up) ==
    Append(queue, [previous_response_id |-> response.id,
                   input |-> IF follow_up # <<>> THEN follow_up[1] ELSE <<>>,
                   tools |-> request.tools,
                   initial |-> FALSE])

\* A driver whose continuation request keeps the previous-response id of
\* the request it was cloned from.
QueueAfterCallbackStaleId(queue, follow_up) ==
    IF follow_up # <<>>
    THEN Append(queue, [previous_response_id |-> request.previous_response_id,
                        input |-> follow_up[1],
                        tools |-> request.tools,
                        initial |-> FALSE])
    ELSE queue

\* A driver that queues one continuation request for every output of the
\* callback.
QueueAfterCallbackPerOutput(queue, follow_up) ==
    IF follow_up # <<>>
    THEN queue \o [i \in 1..Len(follow_up[1]) |->
                      [previous_response_id |-> response.id,
                       input |-> <<follow_up[1][i]>>,
                       tools |-> request.tools,
                       initial |-> FALSE]]
    ELSE queue

\* A driver that offers the built-in tools again in the continuation of a
\* response that called one.
QueueAfterCallbackToolsAgain(queue, follow_up) ==
    IF follow_up # <<>>
    THEN Append(queue, [previous_response_id |-> response.id,
                        input |-> follow_up[1],
                        tools |-> get_openai_assistant_tools,
                        initial |-> FALSE])
    ELSE queue

\* The driver's queue after the callback returned its follow-up `message`:
\* `if let Some(message) = message { ... request_queue.push_back(request) }`.
QueueAfterCallback(queue, follow_up) ==
    IF follow_up # <<>>
    THEN Append(queue, [previous_response_id |-> response.id,
                        input |-> follow_up[1],
                        tools |-> request.tools,
                        initial |-> FALSE])
    ELSE queue

\* The callback returns Ok and the driver goes round the loop.
CallbackReturns ==
    /\ pc = "response_callback" /\ pending = <<>>
    /\ request_queue' = QueueAfterCallback(request_queue, FollowUp(messages))
    /\ followups' = followups + (IF FollowUp(messages) # <<>> THEN 1 ELSE 0)
    /\ messages' = <<>>
    /\ pc' = "loop"
    /\ UNCHANGED <<traceVars, givenVars, started, error, dbVars, helperVars, call, request, response, parsed,
                   requests, pending, dispatched, chat, tool_calls>>

(***************************************************************************)
(* The handling of one event.                                              *)
(***************************************************************************)
Next ==
    \/ \E c \in Callers : AttemptOk(c)
    \/ \E c \in Callers : AttemptFails(c)
    \/ GetOrCreateChannel
    \/ StorageTaskCreatesChannel
    \/ CreateChannel
    \/ GetChannelContext
    \/ GetThreadContext
    \/ SpawnHelpers
    \/ WebSearchReturns
    \/ MessageSearchReturns
    \/ MessageSearchQuery
    \/ JoinHelpers
    \/ DriverStart
    \/ DriverPop
    \/ DriverResponse
    \/ DispatchNoAction
    \/ DispatchUpdateChannelDirective
    \/ DispatchUpdateContext
    \/ DispatchMcpTool
    \/ DispatchReplyToThread
    \/ DispatchSendMessage
    \/ CallbackReturns

Spec == Init /\ [][Next]_vars

(***************************************************************************)
(* parse_openai_response on its own: every response of at most MaxItems    *)
(* output items is parsed once.                                            *)
(***************************************************************************)
InitParse ==
    /\ event \in {Event(<<"u","1">>, <<"h","i">>)}
    /\ mcp = McpAtRest
    /\ push = PushAtRest
    /\ started = <<>>
    /\ pc = "parse"
    /\ error = ""
    /\ channel = [c \in Channels |-> UnsetDirective]
    /\ context = [c \in Channels |-> <<>>]
    /\ message = [c \in Channels |-> <<>>]
    /\ task = [t \in Helpers |-> IdleTask]
    /\ call = [c \in Callers |-> IdleCall]
    /\ searches = 0
    /\ queries = 0
    /\ assistant_context = NoContext
    /\ request_queue = <<>>
    /\ request = NoRequest
    /\ response \in {[id |-> 1, output |-> out] : out \in SeqUpTo(OutputItems, MaxItems)}
    /\ parsed = NotParsed
    /\ pending = <<>>
    /\ messages = <<>>
    /\ requests = 0
    /\ dispatched = 0
    /\ followups = 0
    /\ chat = <<>>
    /\ tool_calls = 0
    /\ InitTrace

ParseResponse ==
    /\ pc = "parse"
    /\ parsed' = parse_openai_response(response)
    /\ pc' = "parsed"
    /\ UNCHANGED <<traceVars, givenVars, started, error, dbVars, helperVars, call, request_queue, request,
                   response, requests, followups, callbackVars>>

NextParse == ParseResponse

SpecParse == InitParse /\ [][NextParse]_vars

(***************************************************************************)
(* The storage client on its own: any sequence of its operations.          *)
(***************************************************************************)
\* No event is being handled: the handler, its helpers, the driver and the
\* callback are at rest.
HandlerAtRest ==
    /\ event = Event(<<"u","1">>, <<"h","i">>)
    /\ started = <<>>
    /\ error = ""
    /\ task = [t \in Helpers |-> IdleTask]
    /\ call = [c \in Callers |-> IdleCall]
    /\ searches = 0
    /\ queries = 0
    /\ assistant_context = NoContext
    /\ request_queue = <<>>
    /\ request = NoRequest
    /\ response = NoResponse
    /\ parsed = NotParsed
    /\ pending = <<>>
    /\ messages = <<>>
    /\ requests = 0
    /\ dispatched = 0
    /\ followups = 0
    /\ chat = <<>>
    /\ tool_calls = 0

InitAtRest == HandlerAtRest /\ mcp = McpAtRest /\ push = PushAtRest

\* The payloads the operations are called with: the serialization of an
\* event in a thread, and of a top-level event, which has no thread_ts.
P_thread == ToValue(EventInThread(<<"u","1">>, <<"a">>, <<"t","0">>))
P_top == ToValue(Event(<<"u","2">>, <<"b">>))
D_A == LlmContextNew(P_thread, "A")
D_B == LlmContextNew(P_top, "B")
Directives == {D_A, D_B}
Texts_stored == { <<"b"," ","c">> }
TermStrings == { <<>>, <<"a">>, <<" ", ",">>, <<"b", ",", "c">> }
\* The searches of the stored messages: no term, blank terms, one term.
TermStrings_stored == { <<>>, <<" ", ",">>, <<"c">> }

\* The number of records of a table, over all channels.
Stored(table) == Len(AnyChannel(table, ""))

InitDb ==
    /\ InitAtRest
    /\ pc = "storage"
    /\ channel = [c \in Channels |-> NoChannel]
    /\ context = [c \in Channels |-> <<>>]
    /\ message = [c \in Channels |-> <<>>]
    /\ InitTrace

\* What every operation records: itself and the storage it found.
Records(name, c, arg) ==
    /\ db_op' = [name |-> name, channel |-> c, arg |-> arg]
    /\ before' = Storage

\* The store fails the operation: nothing is changed, the error is returned.
StoreFails == returned' = Err("db") /\ UNCHANGED <<dbVars, written, created, posted>>

\* The tasks that call get_or_create_channel for one message, and so for
\* one channel: the chat-event task and the message-storage task.
DbCallers == {"chat", "storage"}

\* The operation recorded has not returned yet.
NotReturned == [ok |-> FALSE, v |-> <<>>, why |-> "not returned"]

\* No call of get_or_create_channel is between its select and its create.
\* Bound: the other operations wait for such a call; none of them changes
\* whether a channel record exists.
NoneInWindow == handling = <<>>

\* get_or_create_channel, first request: `self.select(("channel", id))`.
\* A record that is found is returned; when there is none the caller goes
\* on to create it, and other callers can run before it does.
DbGetOrCreateChannel(c) ==
    /\ Len(handling) < Cardinality(DbCallers)
    /\ \A i \in DOMAIN handling : handling[i] = c
    /\ \/ /\ channel[c] # NoChannel
          /\ Records("get_or_create_channel", c, <<>>)
          /\ returned' = Ok(get_or_create_channel(channel[c]))
          /\ UNCHANGED <<dbVars, written, created, posted, handling>>
       \/ /\ channel[c] = NoChannel
          /\ handling' = Append(handling, c)
          /\ Records("get_or_create_channel", c, <<>>)
          /\ returned' = NotReturned
          /\ UNCHANGED <<dbVars, written, created, posted>>
       \/ /\ Records("get_or_create_channel", c, <<>>)
          /\ StoreFails
          /\ UNCHANGED handling
    /\ UNCHANGED <<handlerVars, attempts>>

\* get_or_create_channel, second request, of the i-th caller that found no
\* record: `self.create(("channel", id)).content(new_channel)`.  The store
\* rejects the creation of a record that exists.
DbCreateChannel(i) ==
    /\ i \in DOMAIN handling
    /\ handling' = SubSeq(handling, 1, i - 1) \o SubSeq(handling, i + 1, Len(handling))
    /\ Records("get_or_create_channel", handling[i], <<>>)
    /\ IF channel[handling[i]] = NoChannel
       THEN \/ /\ channel' = [channel EXCEPT ![handling[i]] = get_or_create_channel(@)]
               /\ returned' = Ok(get_or_create_channel(channel[handling[i]]))
               /\ UNCHANGED <<context, message, written, created, posted>>
            \/ StoreFails
       ELSE /\ returned' = Err("record exists")
            /\ UNCHANGED <<dbVars, written, created, posted>>
    /\ UNCHANGED <<handlerVars, attempts>>

\* Bound: the directive updates of one behaviour go to one channel.
DbUpdateChannelDirective(c, directive) ==
    /\ NoneInWindow
    /\ \A d \in Channels \ {c} : written[d] = Unwritten
    /\ Records("update_channel_directive", c, directive)
    /\ \/ /\ channel' = [channel EXCEPT ![c] = update_channel_directive(@, directive)]
          /\ written' = IF channel[c] = NoChannel THEN written
                        ELSE [written EXCEPT ![c] = directive]
          /\ returned' = Ok(<<>>)
          /\ UNCHANGED <<context, message, created, posted>>
       \/ StoreFails
    /\ UNCHANGED <<handlerVars, attempts, handling>>

DbAddChannelContext(c, entry) ==
    /\ NoneInWindow
    /\ Stored(context) < MaxContext
    /\ Records("add_channel_context", c, entry)
    /\ \/ /\ \E entries \in add_channel_context(context[c], entry) :
                context' = [context EXCEPT ![c] = entries]
          /\ created' = [created EXCEPT ![c] = Append(@, entry)]
          /\ returned' = Ok(<<>>)
          /\ UNCHANGED <<channel, message, written, posted>>
       \/ StoreFails
    /\ UNCHANGED <<handlerVars, attempts, handling>>

\* Bound: a channel is given one message.
DbAddChannelMessage(c, text) ==
    /\ NoneInWindow
    /\ message[c] = <<>>
    /\ Records("add_channel_message", c, text)
    /\ \/ /\ message' = [message EXCEPT ![c] = add_channel_message(@, text)]
          /\ posted' = [posted EXCEPT ![c] = Append(@, text)]
          /\ returned' = Ok(<<>>)
          /\ UNCHANGED <<channel, context, written, created>>
       \/ StoreFails
    /\ UNCHANGED <<handlerVars, attempts, handling>>

DbGetChannelContext(c) ==
    /\ NoneInWindow
    /\ Records("get_channel_context", c, <<>>)
    /\ \/ returned' = Ok(get_channel_context(RelatedTo(context, c)))
       \/ returned' = Err("db")
    /\ UNCHANGED <<dbVars, written, created, posted, handlerVars, attempts, handling>>

DbSearchChannelMessages(c, search_terms) ==
    /\ NoneInWindow
    /\ Records("search_channel_messages", c, search_terms)
    /\ \E bm25 \in IndexAnswers(RelatedTo(message, c), search_terms) :
          LET found == search_channel_messages(bm25, RelatedTo(message, c), search_terms)
          IN  \/ returned' = Ok(found.result)
              \/ found.queried /\ returned' = Err("db")
    /\ UNCHANGED <<dbVars, written, created, posted, handlerVars, attempts, handling>>

NextDb ==
    \/ \E c \in Channels : DbGetOrCreateChannel(c)
    \/ \E i \in 1..Cardinality(DbCallers) : DbCreateChannel(i)
    \/ \E c \in Channels, directive \in Directives : DbUpdateChannelDirective(c, directive)
    \/ \E c \in Channels, entry \in Directives : DbAddChannelContext(c, entry)
    \/ \E c \in Channels, text \in Texts_stored : DbAddChannelMessage(c, text)
    \/ \E c \in Channels : DbGetChannelContext(c)
    \/ \E c \in Channels, search_terms \in TermStrings_stored :
          DbSearchChannelMessages(c, search_terms)

SpecDb == InitDb /\ [][NextDb]_vars

(***************************************************************************)
(* search_channel_messages on its own: one search of a store whose         *)
(* channels hold up to MaxMessages messages, or more than a search         *)
(* returns.                                                                *)
(***************************************************************************)
Texts_searched == { <<"a"," ","c">>, <<"b"," ","c">>, <<"b">> }

\* More messages than a search returns, the one with most matches last.
ManyStored ==
    { [i \in 1..(SearchLimit + 2) |->
          IF i = SearchLimit + 2 THEN last ELSE <<"a"," ","c">>]
      : last \in Texts_searched }

StoredLists == SeqUpTo(Texts_searched, MaxMessages) \cup ManyStored

InitSearch ==
    /\ InitAtRest
    /\ pc = "search"
    /\ channel = [c \in Channels |-> UnsetDirective]
    /\ context = [c \in Channels |-> <<>>]
    /\ message \in [Channels -> StoredLists]
    /\ InitTrace

\* The storage a search finds, with what its index answers the search.
Indexed(bm25) ==
    [channel |-> channel, context |-> context, message |-> message, bm25 |-> bm25]

\* One call of search_channel_messages.
SearchChannelMessages(c, search_terms) ==
    /\ pc = "search"
    /\ pc' = "searched"
    /\ db_op' = [name |-> "search_channel_messages", channel |-> c, arg |-> search_terms]
    /\ \E bm25 \in IndexAnswers(RelatedTo(message, c), search_terms) :
          LET found == search_channel_messages(bm25, RelatedTo(message, c), search_terms)
          IN  /\ before' = Indexed(bm25)
              /\ \/ returned' = Ok(found.result)
                 \/ found.queried /\ returned' = Err("db")
    /\ UNCHANGED <<givenVars, started, error, task, call, searches, queries,
                   assistant_context, request_queue, request, response, parsed,
                   pending, messages, requests, dispatched, followups, chat,
                   tool_calls, dbVars, written, created, posted, attempts, handling>>

NextSearch ==
    \E c \in Channels, search_terms \in TermStrings : SearchChannelMessages(c, search_terms)

SpecSearch == InitSearch /\ [][NextSearch]_vars

(***************************************************************************)
(* call_openai_api on its own: one invocation after the other, with the    *)
(* outcome of every attempt on record.                                     *)
(***************************************************************************)
Attempted(outcome, output) == [outcome |-> outcome, output |-> output]

InitCall ==
    /\ InitAtRest
    /\ pc = "call"
    /\ channel = [c \in Channels |-> UnsetDirective]
    /\ context = [c \in Channels |-> <<>>]
    /\ message = [c \in Channels |-> <<>>]
    /\ InitTrace

\* A caller enters call_openai_api.
CallStarts(c) ==
    /\ \A d \in Callers : call[d].st = "idle"
    /\ call' = [call EXCEPT ![c] = StartCall]
    /\ attempts' = <<>>
    /\ UNCHANGED <<givenVars, started, pc, error, dbVars, helperVars, driverVars, callbackVars,
                   db_op, before, returned, written, created, posted, handling>>

\* The attempt is answered in time.
CallAttemptOk(c) ==
    /\ call[c].st = "attempt"
    /\ \E out \in OutputsFor(c) :
          /\ call' = [call EXCEPT ![c] = AfterSuccess(@, [id |-> requests, output |-> out])]
          /\ attempts' = Append(attempts, Attempted("ok", out))
    /\ UNCHANGED <<givenVars, started, pc, error, dbVars, helperVars, driverVars, callbackVars,
                   db_op, before, returned, written, created, posted, handling>>

\* The attempt times out, or the provider answers with an error.
CallAttemptFails(c) ==
    /\ call[c].st = "attempt"
    /\ \E timed_out \in BOOLEAN :
          /\ call' = [call EXCEPT ![c] = AfterFailure(@, timed_out)]
          /\ attempts' = Append(attempts,
                Attempted(IF timed_out THEN "timeout" ELSE "error", <<>>))
    /\ UNCHANGED <<givenVars, started, pc, error, dbVars, helperVars, driverVars, callbackVars,
                   db_op, before, returned, written, created, posted, handling>>

\* call_openai_api has returned and its caller took the result.
CallReturns(c) ==
    /\ call[c].st \in {"ok", "err"}
    /\ call' = [call EXCEPT ![c] = IdleCall]
    /\ attempts' = <<>>
    /\ UNCHANGED <<givenVars, started, pc, error, dbVars, helperVars, driverVars, callbackVars,
                   db_op, before, returned, written, created, posted, handling>>

NextCall ==
    \/ \E c \in Callers : CallStarts(c)
    \/ \E c \in Callers : CallAttemptOk(c)
    \/ \E c \in Callers : CallAttemptFails(c)
    \/ \E c \in Callers : CallReturns(c)

SpecCall == InitCall /\ [][NextCall]_vars

(***************************************************************************)
(* Several events handled side by side: handle_chat_event and              *)
(* handle_message_storage spawn one task per event, and the tasks share    *)
(* the storage and the chat client.  What the helpers and the model do     *)
(* for a handling is reduced here to its outcome: an error, or the list of *)
(* actions of a response.                                                  *)
(***************************************************************************)
TaskIds == {1, 2, 3}
ChatTasks == {1, 2}
Ended == {"done_ok", "done_err"}

\* Two events of channel C1, one in a thread and one at top level, both
\* handled by handle_chat_event; handle_message_storage stores the second.
TaskEvent(t) ==
    IF t = 1 THEN EventInThread(<<"u","1">>, <<"a">>, <<"t","0">>)
    ELSE Event(<<"u","2">>, <<"b">>)

\* A task as tokio::spawn starts it.
Spawned(t) ==
    [kind |-> IF t \in ChatTasks THEN "chat" ELSE "storage",
     event |-> TaskEvent(t),
     pc |-> "get_or_create_channel",
     error |-> "",
     pending |-> <<>>,
     outputs |-> 0,
     rounds |-> 0,
     replied |-> FALSE,
     wrote |-> FALSE,
     after_error |-> FALSE]

\* The lists of actions a response of the model may hold.
TaskResponses(t) ==
    { <<>>,
      <<ReplyToThread("t1", "Bug", "m1")>>,
      <<UpdateChannelDirective("c1", IF t = 1 THEN "A" ELSE "B")>>,
      <<UpdateContext("c2", IF t = 1 THEN "A" ELSE "B"), ReplyToThread("t1", "Bug", "m1")>> }

InitTasks ==
    /\ InitAtRest
    /\ pc = "tasks"
    /\ channel = [c \in Channels |-> NoChannel]
    /\ context = [c \in Channels |-> <<>>]
    /\ message = [c \in Channels |-> <<>>]
    /\ db_op = NoOp
    /\ before = EmptyStorage
    /\ returned = Ok(<<>>)
    /\ written = [c \in Channels |-> Unwritten]
    /\ created = [c \in Channels |-> <<>>]
    /\ posted = [c \in Channels |-> <<>>]
    /\ attempts = <<>>
    /\ handling = [t \in TaskIds |-> Spawned(t)]

\* An error that ends the handlings of all events.
ErrorEndsEveryTask(h, t, step) ==
    [u \in DOMAIN h |->
        IF h[u].pc \in Ended THEN h[u]
        ELSE [h[u] EXCEPT !.pc = "done_err", !.error = step]]

\* `if let Err(err) = &result { error!(..) }`: the error of a handling is
\* logged in its task, which ends.
ErrorEndsTask(h, t, step) == [h EXCEPT ![t].pc = "done_err", ![t].error = step]

\* Whether the handling of another event has ended with an error.
OtherFailed(t) == \E u \in TaskIds \ {t} : handling[u].pc = "done_err"

\* Task t goes on as `next` says.
Goes(t, next) ==
    handling' = [handling EXCEPT ![t] = [next EXCEPT !.after_error = @ \/ OtherFailed(t)]]

\* Task t fails at `step`.
Fails(t, step) ==
    handling' = [ErrorEndsTask(handling, t, step) EXCEPT
                    ![t].after_error = @ \/ OtherFailed(t)]

AfterChannel(t) ==
    IF handling[t].kind = "chat" THEN "get_channel_context" ELSE "add_channel_message"

\* get_or_create_channel, first half: `self.select(("channel", channel_id))`.
TaskSelectChannel(t) ==
    /\ handling[t].pc = "get_or_create_channel"
    /\ \/ Fails(t, "get_or_create_channel")
       \/ /\ channel[handling[t].event.channel] # NoChannel
          /\ Goes(t, [handling[t] EXCEPT !.pc = AfterChannel(t)])
       \/ /\ channel[handling[t].event.channel] = NoChannel
          /\ Goes(t, [handling[t] EXCEPT !.pc = "create_channel"])
    /\ UNCHANGED <<handlerVars, dbVars, db_op, before, returned, written, created, posted, attempts>>

\* get_or_create_channel, second half: `self.create(("channel", channel_id))`,
\* which fails when the record exists by now.
TaskCreateChannel(t) ==
    /\ handling[t].pc = "create_channel"
    /\ IF channel[handling[t].event.channel] = NoChannel
       THEN \/ /\ channel' = [channel EXCEPT ![handling[t].event.channel] =
                                  get_or_create_channel(@)]
               /\ Goes(t, [handling[t] EXCEPT !.pc = AfterChannel(t)])
            \/ /\ Fails(t, "get_or_create_channel")
               /\ UNCHANGED channel
       ELSE /\ Fails(t, "get_or_create_channel")
            /\ UNCHANGED channel
    /\ UNCHANGED <<handlerVars, context, message, db_op, before, returned, written,
                   created, posted, attempts>>

\* handle_message_storage_internal: db.add_channel_message(..).await?
TaskAddChannelMessage(t) ==
    /\ handling[t].pc = "add_channel_message"
    /\ \/ /\ message' = [message EXCEPT ![handling[t].event.channel] =
                              add_channel_message(@, handling[t].event.text)]
          /\ posted' = [posted EXCEPT ![handling[t].event.channel] =
                            Append(@, handling[t].event.text)]
          /\ Goes(t, [handling[t] EXCEPT !.pc = "done_ok"])
       \/ /\ Fails(t, "add_channel_message")
          /\ UNCHANGED <<message, posted>>
    /\ UNCHANGED <<handlerVars, channel, context, db_op, before, returned, written,
                   created, attempts>>

\* db.get_channel_context(..).await? and chat.get_thread_context(..).await?
TaskGetContexts(t) ==
    /\ handling[t].pc \in {"get_channel_context", "get_thread_context"}
    /\ \/ Fails(t, handling[t].pc)
       \/ Goes(t, [handling[t] EXCEPT !.pc =
                      IF @ = "get_channel_context" THEN "get_thread_context"
                      ELSE "assistant"])
    /\ UNCHANGED <<handlerVars, dbVars, db_op, before, returned, written, created, posted, attempts>>

\* compile_contexts and one round of get_assistant_agent_response, up to
\* the call of the callback: an error, or the actions of a response.  The
\* model is scripted to reply once to an event: a handling that has
\* replied gets responses without a reply.
TaskAssistant(t) ==
    /\ handling[t].pc = "assistant"
    /\ \/ Fails(t, "get_assistant_agent_response")
       \/ \E actions \in TaskResponses(t) :
             /\ (\E i \in 1..Len(actions) : actions[i].call_id # Null)
                    => handling[t].rounds < MaxRounds
             /\ (\E i \in 1..Len(actions) : actions[i].type = "UpdateContext")
                    => Len(context[handling[t].event.channel]) < MaxContext - 1
             /\ (\E i \in 1..Len(actions) : actions[i].type = "ReplyToThread")
                    => ~handling[t].replied
             /\ Goes(t, [handling[t] EXCEPT !.pending = actions, !.outputs = 0,
                                             !.rounds = @ + 1,
                                             !.pc = "response_callback"])
    /\ UNCHANGED <<handlerVars, dbVars, db_op, before, returned, written, created, posted, attempts>>

\* The callback dispatches the next action of the response.
TaskDispatch(t) ==
    /\ handling[t].pc = "response_callback"
    /\ handling[t].pending # <<>>
    /\ LET h == handling[t]
           c == h.event.channel
           action == Head(h.pending)
           entry == LlmContextNew(ToValue(h.event), action.message)
       IN CASE action.type = "UpdateChannelDirective" ->
                 \/ /\ channel' = [channel EXCEPT ![c] = update_channel_directive(@, entry)]
                    /\ written' = [written EXCEPT ![c] = entry]
                    /\ Goes(t, [h EXCEPT !.pending = Tail(@), !.outputs = @ + 1,
                                         !.wrote = TRUE])
                    /\ UNCHANGED <<context, created, chat>>
                 \/ /\ Fails(t, "update_channel_directive")
                    /\ UNCHANGED <<channel, written, context, created, chat>>
            [] action.type = "UpdateContext" ->
                 \/ /\ \E entries \in add_channel_context(context[c], entry) :
                          context' = [context EXCEPT ![c] = entries]
                    /\ created' = [created EXCEPT ![c] = Append(@, entry)]
                    /\ Goes(t, [h EXCEPT !.pending = Tail(@), !.outputs = @ + 1])
                    /\ UNCHANGED <<channel, written, chat>>
                 \/ /\ Fails(t, "add_channel_context")
                    /\ UNCHANGED <<channel, written, context, created, chat>>
            [] action.type = "ReplyToThread" ->
                 \E reacted \in BOOLEAN :
                    /\ chat' = Append(chat, [op |-> "react_to_message", channel |-> c,
                                             thread_ts |-> action.thread_ts,
                                             text |-> Emoji(action.classification),
                                             ok |-> reacted])
                    /\ Goes(t, [h EXCEPT !.pc = "send_message", !.replied = TRUE])
                    /\ UNCHANGED <<channel, written, context, created>>
            [] OTHER ->
                 /\ Goes(t, [h EXCEPT !.pending = Tail(@)])
                 /\ UNCHANGED <<channel, written, context, created, chat>>
    /\ UNCHANGED <<givenVars, started, pc, error, task, call, searches, queries, assistant_context,
                   request_queue, request, response, parsed, pending, messages,
                   requests, dispatched, followups, tool_calls,
                   message, posted, db_op, before, returned, attempts>>

\* The second request of a ReplyToThread, after the reaction:
\* chat.send_message(&channel_id, &thread_ts, &message).await?
TaskSendMessage(t) ==
    /\ handling[t].pc = "send_message"
    /\ LET h == handling[t]
           action == Head(h.pending)
       IN  \E sent \in BOOLEAN :
              /\ chat' = Append(chat, [op |-> "send_message", channel |-> h.event.channel,
                                       thread_ts |-> action.thread_ts,
                                       text |-> action.message, ok |-> sent])
              /\ IF sent THEN Goes(t, [h EXCEPT !.pending = Tail(@), !.pc = "response_callback"])
                         ELSE Fails(t, "send_message")
    /\ UNCHANGED <<givenVars, started, pc, error, task, call, searches, queries, assistant_context,
                   request_queue, request, response, parsed, pending, messages,
                   requests, dispatched, followups, tool_calls,
                   dbVars, db_op, before, returned, written, created, posted, attempts>>

\* The callback returns: the driver sends a follow-up request when there
\* are outputs to hand back, and returns Ok when there are none.
TaskCallbackReturns(t) ==
    /\ handling[t].pc = "response_callback"
    /\ handling[t].pending = <<>>
    /\ Goes(t, [handling[t] EXCEPT !.pc = IF handling[t].outputs > 0 THEN "assistant"
                                          ELSE "done_ok"])
    /\ UNCHANGED <<handlerVars, dbVars, db_op, before, returned, written, created, posted, attempts>>

\* A step of task t.
TaskStep(t) ==
    \/ TaskSelectChannel(t)
    \/ TaskCreateChannel(t)
    \/ TaskAddChannelMessage(t)
    \/ TaskGetContexts(t)
    \/ TaskAssistant(t)
    \/ TaskDispatch(t)
    \/ TaskSendMessage(t)
    \/ TaskCallbackReturns(t)

NextTasks ==
    \/ \E t \in TaskIds : TaskSelectChannel(t)
    \/ \E t \in TaskIds : TaskCreateChannel(t)
    \/ \E t \in TaskIds : TaskAddChannelMessage(t)
    \/ \E t \in TaskIds : TaskGetContexts(t)
    \/ \E t \in TaskIds : TaskAssistant(t)
    \/ \E t \in TaskIds : TaskDispatch(t)
    \/ \E t \in TaskIds : TaskSendMessage(t)
    \/ \E t \in TaskIds : TaskCallbackReturns(t)

SpecTasks == InitTasks /\ [][NextTasks]_vars

(***************************************************************************)
(* handle_push_event: what is started for the push events the chat          *)
(* service delivers.                                                        *)
(***************************************************************************)
\* user_state.bot_user_id, as it occurs in a text.
BotUserIdText == <<"U","1">>

\* The texts of push events: no text at all (no content), a text without
\* and texts with the bot user id.
PushTexts ==
    { <<>>, <<"h","i">>, <<"<","@","U","1",">"," ","h","i">>, <<"U","1","2">> }

PushEvent(kind, channel_id, text, thread_ts) ==
    [kind |-> kind, channel |-> channel_id, text |-> text, thread_ts |-> thread_ts]

PushEvents ==
    { PushEvent("message", channel_id, text, thread_ts) :
        channel_id \in Channels \cup {""},
        text \in PushTexts, thread_ts \in {Absent, <<"t","0">>} }
    \cup { PushEvent("app_mention", channel_id, text, thread_ts) :
        channel_id \in Channels,
        text \in PushTexts, thread_ts \in {Absent, <<"t","0">>} }
    \cup { PushEvent("other", "", <<>>, Absent) }

\* What the chat service delivers for what users post: any one event, or,
\* for a message that mentions the bot, a message event and an app-mention
\* event, in either order.
Deliveries ==
    { <<e>> : e \in PushEvents }
    \cup UNION { { <<PushEvent("message", c, text, thread_ts),
                      PushEvent("app_mention", c, text, thread_ts)>>,
                    <<PushEvent("app_mention", c, text, thread_ts),
                      PushEvent("message", c, text, thread_ts)>> }
                  : c \in Channels,
                    text \in { <<"<","@","U","1",">"," ","h","i">> },
                    thread_ts \in {Absent, <<"t","0">>} }

\* A handler that stores the messages it is going to triage.
StoresMessageIfTriaged(e) ==
    e.channel # "" /\ ~Contains(e.text, BotUserIdText) /\ e.thread_ts = Absent

\* `origin.channel.as_ref().ok_or(..)?` and the call of
\* handle_message_storage that follows it without any condition.
StoresMessage(e) == e.channel # ""

\* A handler that does not look for the bot user id.
MentionsBotNever(text) == FALSE

\* text.contains(&user_state.bot_user_id)
MentionsBot(text) == Contains(text, BotUserIdText)

\* slack_message_event.origin.thread_ts.is_some()
InThread(e) == e.thread_ts # Absent

\* What handle_push_event has started for one event, and what it returned.
Handled(e, storage, chat_event, result) ==
    [event |-> e, storage |-> storage, chat_event |-> chat_event, result |-> result]

InitPush ==
    /\ HandlerAtRest
    /\ mcp = McpAtRest
    /\ push \in { [deliveries |-> d, at |-> "idle", handled |-> <<>>] : d \in Deliveries }
    /\ pc = "push"
    /\ channel = [c \in Channels |-> UnsetDirective]
    /\ context = [c \in Channels |-> <<>>]
    /\ message = [c \in Channels |-> <<>>]
    /\ InitTrace

pushFrame == <<event, mcp, started, pc, error, task, call, searches, queries,
               assistant_context, request_queue, request, response, parsed,
               pending, messages, requests, dispatched, followups, chat,
               tool_calls, dbVars, traceVars>>

\* SlackEventCallbackBody::Message, up to handle_message_storage: without a
\* channel id the handler returns the error, else the storage task is
\* spawned.
PushMessageStorage ==
    /\ push.at = "idle"
    /\ push.deliveries # <<>>
    /\ Head(push.deliveries).kind = "message"
    /\ LET e == Head(push.deliveries)
       IN  push' = IF e.channel = ""
                   THEN [push EXCEPT !.deliveries = Tail(@),
                                     !.handled = Append(@, Handled(e, 0, 0, Err("channel")))]
                   ELSE [push EXCEPT !.at = "stored",
                                     !.handled = Append(@,
                                        Handled(e, IF StoresMessage(e) THEN 1 ELSE 0, 0, Ok(<<>>)))]
    /\ UNCHANGED pushFrame

\* SlackEventCallbackBody::Message, after handle_message_storage: the two
\* skips, or handle_chat_event.
PushMessageChatEvent ==
    /\ push.at = "stored"
    /\ LET e == Head(push.deliveries)
           n == Len(push.handled)
       IN  push' = [push EXCEPT !.at = "idle", !.deliveries = Tail(@),
                                !.handled[n].chat_event =
                                    IF MentionsBot(e.text) \/ InThread(e) THEN 0 ELSE 1]
    /\ UNCHANGED pushFrame

\* SlackEventCallbackBody::AppMention: handle_chat_event.
PushAppMention ==
    /\ push.at = "idle"
    /\ push.deliveries # <<>>
    /\ Head(push.deliveries).kind = "app_mention"
    /\ push' = [push EXCEPT !.deliveries = Tail(@),
                            !.handled = Append(@, Handled(Head(push.deliveries), 0, 1, Ok(<<>>)))]
    /\ UNCHANGED pushFrame

\* `_ => warn!("Received unhandled push event.")`
PushUnhandled ==
    /\ push.at = "idle"
    /\ push.deliveries # <<>>
    /\ Head(push.deliveries).kind = "other"
    /\ push' = [push EXCEPT !.deliveries = Tail(@),
                            !.handled = Append(@, Handled(Head(push.deliveries), 0, 0, Ok(<<>>)))]
    /\ UNCHANGED pushFrame

NextPush ==
    \/ PushMessageStorage
    \/ PushMessageChatEvent
    \/ PushAppMention
    \/ PushUnhandled

SpecPush == InitPush /\ [][NextPush]_vars

(***************************************************************************)
(* The construction of the tool registry client: McpClient::new reads the  *)
(* configured servers, hydrate_mcps connects to each of them and lists its *)
(* tools, all servers concurrently, and the results are collected.         *)
(***************************************************************************)
MaxServers == 2

\* What a configured server does when it is used: its configuration may not
\* deserialize, its transport may not connect, its tool listing may fail.
ServerKinds == {"ok", "bad_config", "unreachable", "no_tools_list"}

\* The entries of the configuration file: a map, so the names are distinct.
McpServer(i, kind) == [name |-> <<"server", i>>, kind |-> kind]
JsonServers ==
    UNION { { [i \in 1..n |-> McpServer(i, kinds[i])] : kinds \in [1..n -> ServerKinds] }
            : n \in 0..MaxServers }

\* serde_json::from_value::<McpServerConfig>(value)? for every entry,
\* collected into one result.
get_servers_from_mcp_json(json_servers) ==
    IF \E i \in DOMAIN json_servers : json_servers[i].kind = "bad_config"
    THEN Err("config")
    ELSE Ok(json_servers)

\* ().serve(transport).await? of one server.
get_mcp_server_client(server) ==
    IF server.kind = "unreachable" THEN "failed" ELSE "connected"

\* client.list_all_tools().await? of one connected server.
list_all_tools(server) ==
    IF server.kind = "no_tools_list" THEN "failed" ELSE "listed"

Mcp(server) == [name |-> server.name, tools |-> <<"tool", server.name[2]>>]

\* A collection that keeps the servers that answered and drops the others.
CollectListed(servers, progress) ==
    LET RECURSIVE Kept(_)
        Kept(i) == IF i > Len(servers) THEN <<>>
                   ELSE (IF progress[i] = "listed" THEN <<Mcp(servers[i])>> ELSE <<>>)
                        \o Kept(i + 1)
    IN  Ok(Kept(1))

\* join_all(tools_tasks).await.into_iter().collect::<Res<Vec<_>>>()?: the
\* entries of all servers in the order of the configuration, or the first
\* error.
Collect(servers, progress) ==
    IF \E i \in DOMAIN servers : progress[i] = "failed"
    THEN Err("hydrate_mcps")
    ELSE Ok([i \in DOMAIN servers |-> Mcp(servers[i])])

InitMcp ==
    /\ HandlerAtRest
    /\ push = PushAtRest
    /\ mcp \in { [stage |-> "new", servers |-> json_servers, progress |-> <<>>,
                   result |-> NoRegistry] : json_servers \in JsonServers }
    /\ pc = "mcp"
    /\ channel = [c \in Channels |-> UnsetDirective]
    /\ context = [c \in Channels |-> <<>>]
    /\ message = [c \in Channels |-> <<>>]
    /\ InitTrace

mcpFrame == <<event, push, started, pc, error, task, call, searches, queries,
              assistant_context, request_queue, request, response, parsed,
              pending, messages, requests, dispatched, followups, chat,
              tool_calls, dbVars, traceVars>>

\* McpClient::new up to the call of hydrate_mcps: the configuration is read
\* and parsed, and a configuration error is returned at once.
McpClientNew ==
    /\ mcp.stage = "new"
    /\ LET servers == get_servers_from_mcp_json(mcp.servers)
       IN  mcp' = IF servers.ok
                  THEN [mcp EXCEPT !.stage = "hydrate",
                                   !.progress = [i \in DOMAIN mcp.servers |-> "pending"]]
                  ELSE [mcp EXCEPT !.stage = "done", !.result = Err(servers.why)]
    /\ UNCHANGED mcpFrame

\* The task of server i connects.
ServerConnects(i) ==
    /\ mcp.stage = "hydrate"
    /\ mcp.progress[i] = "pending"
    /\ mcp' = [mcp EXCEPT !.progress[i] = get_mcp_server_client(mcp.servers[i])]
    /\ UNCHANGED mcpFrame

\* The task of server i lists the tools of its server.
ServerLists(i) ==
    /\ mcp.stage = "hydrate"
    /\ mcp.progress[i] = "connected"
    /\ mcp' = [mcp EXCEPT !.progress[i] = list_all_tools(mcp.servers[i])]
    /\ UNCHANGED mcpFrame

\* join_all returns once every task has finished; McpClient::new returns
\* the error of hydrate_mcps, or the client that holds the registry.
HydrateReturns ==
    /\ mcp.stage = "hydrate"
    /\ \A i \in DOMAIN mcp.servers : mcp.progress[i] \in {"listed", "failed"}
    /\ mcp' = [mcp EXCEPT !.stage = "done",
                          !.result = Collect(mcp.servers, mcp.progress)]
    /\ UNCHANGED mcpFrame

NextMcp ==
    \/ McpClientNew
    \/ \E i \in 1..MaxServers : i \in DOMAIN mcp.servers /\ ServerConnects(i)
    \/ \E i \in 1..MaxServers : i \in DOMAIN mcp.servers /\ ServerLists(i)
    \/ HydrateReturns

SpecMcp == InitMcp /\ [][NextMcp]_vars

(***************************************************************************)
(* Properties.                                                             *)
(***************************************************************************)
\* The events whose serialized form contains "remember" or "directive".
KeywordEvents ==
    { Event(<<"u","1">>, <<"r","e","m","e","m","b","e","r"," ","x">>),
      Event(<<"u","1">>, <<"n","o"," ","d","i","r","e","c","t","i","v","e","s">>),
      Event(<<"d","i","r","e","c","t","i","v","e">>, <<"h","i">>) }

\* C1: a call_openai_api invocation whose every attempt timed out and that
\* returned an error has issued exactly 3 model calls.
C1_AllTimeoutsIssueThreeCalls ==
    \A c \in Callers :
        (call[c].st = "err" /\ call[c].all_timeout) => call[c].calls = 3

\* The helper agent's own call failed: call_openai_api gave up, or the
\* helper could not parse the response.
HelperCallFailed(t) ==
    /\ task[t].st = "done"
    /\ ~task[t].res.ok
    /\ task[t].res.why \in {"call_openai_api", "parse_openai_response"}

\* C2: once the web-search or the message-search helper call has failed,
\* compile_contexts can only return an error, which ends the handling, and
\* the assistant driver sends no request and makes no model call.
C2_HelperFailureStopsBeforeAssistant ==
    (\E t \in Helpers : HelperCallFailed(t)) =>
        /\ pc \in {"join", "done_err"}
        /\ pc = "done_err" => error = "compile_contexts"
        /\ requests = 0
        /\ request_queue = <<>>
        /\ call["asst"] = IdleCall

C2_Witness ==
    /\ pc = "done_err"
    /\ error = "compile_contexts"
    /\ task["web"].res.ok
    /\ HelperCallFailed("msg")
    /\ task["msg"].res.why = "call_openai_api"

\* The requests the driver has built so far.
DriverRequests ==
    ({request} \cup {request_queue[i] : i \in 1..Len(request_queue)}) \ {NoRequest}

\* C3: every assistant request offers both built-in tools exactly when the
\* serialized triggering event contains "remember" or "directive", and
\* offers neither of them otherwise.
C3_BuiltInToolsOfferedIffKeyword ==
    \A r \in DriverRequests :
        /\ (BuiltInTools \subseteq r.tools) <=> (event \in KeywordEvents)
        /\ (event \notin KeywordEvents) => (r.tools \cap BuiltInTools = {})

C3_Witness ==
    /\ request.initial
    /\ event = Event(<<"d","i","r","e","c","t","i","v","e">>, <<"h","i">>)
    /\ request.tools = {"set_channel_directive", "update_channel_context"}

\* C4: for an event without "remember" and without "directive" the directive
\* of its channel is never written and no context entry is ever added.
C4_NoKeywordNoStorageWrite ==
    (event \notin KeywordEvents) =>
        /\ channel[event.channel] \in {NoChannel, UnsetDirective}
        /\ context[event.channel] = <<>>

\* An output item that must make the parse fail.
RefusalAt(item) ==
    item.kind = "message" /\ \E j \in 1..Len(item.content) : item.content[j].ckind = "refusal"
UnknownCallAt(item) ==
    item.kind = "function_call" /\ item.name \notin (BuiltInTools \cup RegisteredTools)

\* C5: a response holding, anywhere among its output items, a refusal or a
\* function call whose name is neither built-in nor registered is parsed to
\* an error.
C5_UnknownCallOrRefusalIsAnError ==
    (pc = "parsed" /\ \E i \in 1..Len(response.output) :
                          RefusalAt(response.output[i]) \/ UnknownCallAt(response.output[i]))
        => ~parsed.ok

C5_Witness ==
    /\ pc = "parsed"
    /\ response.output = <<F_ctx, F_unknown>>
    /\ ~parsed.ok

\* C6: when the parse of a response failed, the callback was not invoked for
\* that response (it was invoked once for each earlier response only), the
\* handling has ended with that error, and no request follows the response.
C6_ParseFailureSkipsDispatch ==
    (parsed # NotParsed /\ ~parsed.ok) =>
        /\ pc = "done_err"
        /\ error = "parse_openai_response"
        /\ dispatched = requests - 1
        /\ pending = <<>>
        /\ response.id = requests
        /\ request_queue = <<>>
        /\ call["asst"] = IdleCall

C6_Witness ==
    /\ pc = "done_err"
    /\ response.output = <<F_ctx, F_unknown>>
    /\ ~parsed.ok
    /\ requests = 1
    /\ dispatched = 0
    /\ context[event.channel] = <<>>

\* The message-search helper returned its terms to the task.
TermsReturned ==
    \/ task["msg"].st = "search"
    \/ /\ task["msg"].st = "done"
       /\ task["msg"].res.why \notin {"call_openai_api", "parse_openai_response"}

OnlyCommasAndWhitespace(s) == \A i \in 1..Len(s) : s[i] \in {",", " "}

\* C7 as claimed: for terms that are empty or made only of commas and
\* whitespace, search_channel_messages is never called and the findings are
\* the sentinel text.
C7_BlankTermsNeverSearch ==
    (TermsReturned /\ OnlyCommasAndWhitespace(task["msg"].search_terms)) =>
        /\ searches = 0
        /\ task["msg"].st = "done" => task["msg"].res = Ok(Sentinel)

\* C7 as amended: for the empty string, search_channel_messages is never
\* called and the findings are the sentinel text; for a non-empty string of
\* commas and whitespace, search_channel_messages is called once, the store
\* is not queried, and the findings are "[]".
C7_EmptyTermsNeverSearchBlankTermsFindNothing ==
    TermsReturned =>
        /\ task["msg"].search_terms = <<>> =>
              /\ searches = 0
              /\ task["msg"].st = "done"
              /\ task["msg"].res = Ok(Sentinel)
        /\ ( /\ task["msg"].search_terms # <<>>
             /\ OnlyCommasAndWhitespace(task["msg"].search_terms)
             /\ task["msg"].st = "done" ) =>
              /\ searches = 1
              /\ queries = 0
              /\ task["msg"].res = Ok(JsonList(<<>>))

C7_Witness ==
    /\ task["msg"].st = "done"
    /\ task["msg"].search_terms = <<",", " ">>
    /\ searches = 1
    /\ task["msg"].res = Ok(JsonList(<<>>))

\* C8: one invocation of the assistant driver sends at most 5 requests.
C8_AtMostFiveRequests == requests <= 5

\* C9: the driver sends one request to start with and one more for each
\* follow-up the callback returned, and none else; it returns only when no
\* request is waiting.
C9_OneRequestPerFollowUp ==
    /\ (requests + Len(request_queue) > 0) => requests + Len(request_queue) = 1 + followups
    /\ pc = "done_ok" => request_queue = <<>> /\ requests = 1 + followups

C9_Witness ==
    /\ pc = "done_ok"
    /\ followups = 2
    /\ requests = 3

\* C10: when the handling has ended in an error, no message was sent.
C10_NoMessageSentOnError ==
    pc = "done_err" => Sends(chat) = <<>>


\* Whether every element of `old` is still in `new`, in the same order.
RECURSIVE IsSubsequence(_, _)
IsSubsequence(old, new) ==
    IF old = <<>> THEN TRUE
    ELSE IF new = <<>> THEN FALSE
    ELSE IF Head(old) = Head(new) THEN IsSubsequence(Tail(old), Tail(new))
    ELSE IsSubsequence(old, Tail(new))

\* C11: once update_channel_directive has been applied to a channel, the
\* directive the channel holds equals, raw payload and notes, the directive
\* handed to the last update: nothing of an earlier directive is left.
C11_DirectiveIsTheLastWritten ==
    \A c \in Channels :
        written[c] # Unwritten => channel[c] = written[c]

\* C12: when add_channel_context has added entry A and then entry B to a
\* channel, get_channel_context returns the two entries, A before B.
C12_ContextInCreationOrder ==
    \A c \in Channels :
        (/\ db_op.name = "get_channel_context"
         /\ db_op.channel = c
         /\ returned.ok
         /\ Len(created[c]) = 2)
        => returned.v = JsonList(created[c])

\* C13: no storage operation removes or alters a context entry of a
\* channel, and only a successful add_channel_context adds one: after every
\* operation the entries found before it are all still there, in the same
\* order; there is one more, the entry added, after add_channel_context and
\* none more after any other operation.
C13_ContextEntriesOnlyGrow ==
    db_op.name # "" =>
        \A c \in Channels :
            /\ IsSubsequence(before.context[c], context[c])
            /\ IF db_op.name = "add_channel_context" /\ db_op.channel = c /\ returned.ok
               THEN context[c] \in add_channel_context(before.context[c], db_op.arg)
               ELSE context[c] = before.context[c]

C13_Witness ==
    /\ db_op.name = "add_channel_context"
    /\ returned.ok
    /\ before.context[db_op.channel] = <<D_A>>
    /\ db_op.arg = D_B
    /\ channel[db_op.channel] \notin {NoChannel, UnsetDirective}
    /\ \A c \in Channels : message[c] # <<>>

\* C14: get_or_create_channel creates a channel that has no record with the
\* unset directive (empty payload, empty notes) and returns it; on a channel
\* that has a record it returns the stored directive and changes nothing.
C14_GetOrCreateChannel ==
    (db_op.name = "get_or_create_channel" /\ returned.ok) =>
        IF before.channel[db_op.channel] = NoChannel
        THEN /\ channel[db_op.channel] = returned.v
             /\ returned.v.user_message = EmptyObject
             /\ returned.v.your_notes = ""
             /\ Storage = [before EXCEPT !.channel[db_op.channel] = returned.v]
        ELSE /\ Storage = before
             /\ returned.v = before.channel[db_op.channel]

C14_Witness ==
    /\ db_op.name = "get_or_create_channel"
    /\ returned.ok
    /\ before.channel[db_op.channel] \notin {NoChannel, UnsetDirective}
    /\ written[db_op.channel] = D_A
    /\ returned.v = D_A


\* The actions that answer a tool call of the model.
ToolShaped(r) == r.type \in {"UpdateChannelDirective", "UpdateContext", "McpTool"}

\* The function_call_output values a list of actions calls for: one for each
\* tool-shaped action, with its call_id, in the order of the actions.
ExpectedOutputs(actions) ==
    [i \in 1..Len(SelectSeq(actions, ToolShaped)) |->
        [type |-> "function_call_output",
         call_id |-> SelectSeq(actions, ToolShaped)[i].call_id,
         output |-> CASE SelectSeq(actions, ToolShaped)[i].type = "UpdateChannelDirective"
                           -> "Channel directive updated successfully."
                      [] SelectSeq(actions, ToolShaped)[i].type = "UpdateContext"
                           -> "Context updated successfully."
                      [] OTHER -> "tool result"]]

\* The actions of the response in hand, and those already dispatched.
ActionsInHand == Responses(parsed.v)
ActionsDone == SubSeq(ActionsInHand, 1, Len(ActionsInHand) - Len(pending))

\* C15: while the callback dispatches a response, its list holds exactly one
\* function_call_output for each tool-shaped action dispatched so far, with
\* that action's call_id, in the order of the actions; when it has returned,
\* the follow-up request carries that list for the whole response, and there
\* is no follow-up when the response had no tool-shaped action.
C15_OneOutputPerToolShapedAction ==
    /\ InCallback => messages = ExpectedOutputs(ActionsDone)
    /\ (pc = "loop" /\ parsed.ok) =>
          IF ExpectedOutputs(ActionsInHand) = <<>>
          THEN request_queue = <<>>
          ELSE /\ Len(request_queue) = 1
               /\ request_queue[1].input = ExpectedOutputs(ActionsInHand)

C15_Witness ==
    /\ pc = "loop"
    /\ parsed.ok
    /\ Len(ActionsInHand) = 3
    /\ Len(request_queue) = 1
    /\ Len(request_queue[1].input) = 3
    /\ request_queue[1].input[2].call_id = "c6"

\* C16: when a registry tool invocation has failed, the handling has ended
\* with that error, the failed action and the actions after it in the same
\* response are still undone, and the driver has queued and sent no request
\* after the one whose response held the failed call.
C16_ToolFailureAbortsTheLoop ==
    error = "call_tool" =>
        /\ pc = "done_err"
        /\ pending # <<>>
        /\ Head(pending).type = "McpTool"
        /\ pending = SubSeq(ActionsInHand, Len(ActionsInHand) - Len(pending) + 1,
                            Len(ActionsInHand))
        /\ request_queue = <<>>
        /\ call["asst"] = IdleCall
        /\ requests = dispatched

C16_Witness ==
    /\ error = "call_tool"
    /\ pc = "done_err"
    /\ Len(pending) = 2
    /\ pending[2].type = "UpdateContext"
    /\ context[event.channel] = <<>>
    /\ channel[event.channel].your_notes = "n1"


\* The attempts on record are all failures.
AllFailed == \A i \in 1..Len(attempts) : attempts[i].outcome \in {"timeout", "error"}

\* C17: call_openai_api retries every failed attempt, a timeout and a
\* provider error alike, on one counter: while it runs, every attempt so far
\* has failed and has been counted as a retry, and it has returned an error
\* only when the attempt after the last retry, MAX_RETRIES + 1 in all, has
\* failed too.
C17_EveryFailureRetriedUntilExhausted ==
    \A c \in Callers :
        /\ call[c].st = "attempt" =>
              /\ AllFailed
              /\ call[c].retries = Len(attempts)
              /\ Len(call[c].slept) = Len(attempts)
              /\ Len(attempts) <= MAX_RETRIES
        /\ call[c].st = "err" =>
              /\ AllFailed
              /\ call[c].retries = MAX_RETRIES
              /\ Len(attempts) = MAX_RETRIES + 1

C17_Witness ==
    \E c \in Callers :
        /\ call[c].st = "err"
        /\ attempts[1].outcome = "timeout"
        /\ attempts[2].outcome = "error"
        /\ attempts[3].outcome = "error"
        /\ attempts[4].outcome = "timeout"

\* C18: no attempt is made after one that succeeded, and an invocation whose
\* k-th attempt is the first to succeed returns the response of that attempt
\* having made exactly k calls, the k - 1 before it counted as retries.
C18_SuccessAtAttemptKMakesKCalls ==
    /\ \A i \in 1..(Len(attempts) - 1) : attempts[i].outcome # "ok"
    /\ \A c \in Callers :
          call[c].st = "ok" =>
              /\ attempts # <<>>
              /\ attempts[Len(attempts)].outcome = "ok"
              /\ call[c].calls = Len(attempts)
              /\ call[c].retries = Len(attempts) - 1
              /\ call[c].response.output = attempts[Len(attempts)].output

C18_Witness ==
    /\ call["asst"].st = "ok"
    /\ call["asst"].calls = 2
    /\ Len(attempts) = 2
    /\ attempts[1].outcome = "timeout"
    /\ call["asst"].response.output = <<M_reply>>


\* C19: when the handlings of two events of one channel have both set the
\* directive and have ended, the directive the channel holds equals, raw
\* payload and notes, the one written last.  A channel no handling has
\* written to is not concerned.
C19_LastWriteWins ==
    (\A t \in ChatTasks : handling[t].pc \in Ended /\ handling[t].wrote) =>
        \A c \in Channels :
            written[c] # Unwritten => channel[c] = written[c]

\* C20: a step that ends the handling of one event with an error changes
\* the handling of no other event; a handling that has ended, with an error
\* or without, is never taken up again; and a handling that has not ended
\* can always take its next step, whatever has become of the others.
C20_ErrorsStayInTheirTask ==
    /\ [][\A t \in TaskIds :
            /\ handling[t].pc \in Ended => handling'[t] = handling[t]
            /\ (handling[t].pc # "done_err" /\ handling'[t].pc = "done_err") =>
                  \A u \in TaskIds \ {t} : handling'[u] = handling[u]]_vars
    /\ [](\A t \in TaskIds : handling[t].pc \notin Ended => ENABLED TaskStep(t))

C20_Witness ==
    /\ handling[1].pc = "done_err"
    /\ handling[1].error = "update_channel_directive"
    /\ handling[2].pc = "done_ok"
    /\ handling[2].after_error
    /\ handling[2].wrote
    /\ handling[3].pc = "done_ok"
    /\ handling[3].after_error

\* C21: McpClient::new returns a client only if every configured server
\* connected and listed its tools, and the registry then has exactly one
\* entry per configured server, in the order of the configuration; if any
\* server fails, McpClient::new returns an error and no registry.
C21_RegistryIsAllOrNothing ==
    mcp.stage = "done" =>
        /\ mcp.result # NoRegistry
        /\ mcp.result.ok <=>
              \A i \in DOMAIN mcp.servers : mcp.servers[i].kind = "ok"
        /\ mcp.result.ok =>
              /\ \A i \in DOMAIN mcp.servers :
                     mcp.servers[i].kind = "ok" /\ mcp.progress[i] = "listed"
              /\ Len(mcp.result.v) = Len(mcp.servers)
              /\ \A i \in DOMAIN mcp.servers :
                     mcp.result.v[i].name = mcp.servers[i].name
        /\ (\E i \in DOMAIN mcp.servers : mcp.servers[i].kind # "ok") =>
              /\ ~mcp.result.ok
              /\ mcp.result.v = <<>>

\* One server listed its tools, another failed, and the construction has
\* returned its error.
C21_Witness ==
    /\ mcp.stage = "done"
    /\ \E i, j \in DOMAIN mcp.progress :
          mcp.progress[i] = "listed" /\ mcp.progress[j] = "failed"
    /\ ~mcp.result.ok

\* C22: whatever operations were applied to whatever channels, a successful
\* get_channel_context of a channel returns exactly the entries that were
\* added to that channel, and a successful search_channel_messages of a
\* channel returns only messages of that channel, none more often than the
\* channel holds it: nothing added to another channel is returned.
Occurrences(list, x) == Cardinality({i \in DOMAIN list : list[i] = x})

C22_ChannelsAreIsolated ==
    returned.ok =>
        /\ db_op.name = "get_channel_context" =>
              /\ Len(returned.v.list) = Len(created[db_op.channel])
              /\ \A entry \in Directives :
                    Occurrences(returned.v.list, entry)
                        = Occurrences(created[db_op.channel], entry)
        /\ db_op.name = "search_channel_messages" =>
              \A text \in {returned.v.list[i] : i \in DOMAIN returned.v.list} :
                    Occurrences(returned.v.list, text)
                        <= Occurrences(posted[db_op.channel], text)

\* A search of one channel has returned the one message of that channel
\* while the other channel holds a message that matches the same terms, and
\* entries were added to the context of both channels.
C22_Witness ==
    /\ db_op.name = "search_channel_messages"
    /\ returned.ok
    /\ Len(returned.v.list) = 1
    /\ \E c \in Channels \ {db_op.channel} :
          /\ \E i \in DOMAIN message[c], k \in DOMAIN SearchTerms(db_op.arg) :
                TermMatches(message[c][i], SearchTerms(db_op.arg)[k])
          /\ created[c] # <<>>
          /\ created[db_op.channel] # <<>>
          /\ created[c] # created[db_op.channel]

\* C23: a dispatched UpdateChannelDirective leaves, in the channel of the
\* event being handled, a directive whose raw payload is that event and
\* whose notes are the action's message; a dispatched UpdateContext adds to
\* that channel one context entry with that payload and those notes.
C23_DispatchStoresTheEvent ==
    [][\A t \in ChatTasks :
          ( /\ handling[t].pc = "response_callback"
            /\ handling[t].pending # <<>>
            /\ handling'[t].pc = "response_callback"
            /\ handling'[t].pending = Tail(handling[t].pending) ) =>
          LET action == Head(handling[t].pending)
              c == handling[t].event.channel
              entry == LlmContextNew(ToValue(handling[t].event), action.message)
          IN  /\ action.type = "UpdateChannelDirective" => channel'[c] = entry
              /\ action.type = "UpdateContext" =>
                    /\ Len(context'[c]) = Len(context[c]) + 1
                    /\ \E i \in DOMAIN context'[c] :
                          /\ context'[c][i] = entry
                          /\ context[c] = SubSeq(context'[c], 1, i - 1)
                                             \o SubSeq(context'[c], i + 1, Len(context'[c]))
     ]_vars

\* C24: the steps of one handling start in the order get_or_create_channel,
\* get_channel_context, get_thread_context, the two helper agents, the
\* assistant agent; once a step has failed no further step is started, so
\* that what was started ends with the step that failed (with the helper
\* agents when compile_contexts failed).
StepOrder ==
    <<"get_or_create_channel", "get_channel_context", "get_thread_context",
      "web_search_agent", "message_search_agent", "assistant_agent">>

LastStarted(err) ==
    CASE err = "get_or_create_channel" -> 1
      [] err = "get_channel_context" -> 2
      [] err = "get_thread_context" -> 3
      [] err = "compile_contexts" -> 5
      [] OTHER -> 6

C24_StepsStartInOrder ==
    /\ [](/\ Len(started) <= Len(StepOrder)
          /\ started = SubSeq(StepOrder, 1, Len(started))
          /\ error # "" => Len(started) = LastStarted(error))
    /\ [][error # "" => started' = started]_vars

\* Both helper agents were started, one of them failed, and the handling
\* has ended without the assistant agent.
C24_Witness ==
    /\ pc = "done_err"
    /\ error = "compile_contexts"
    /\ Len(started) = 5

\* C25: the two helper agents are sibling tasks, both started before the
\* join; a task whose sibling has failed is not cancelled, it can take
\* every one of its remaining steps, the storage search of the
\* message-search task included; and compile_contexts returns the error
\* with both tasks run to completion.
Failed(t) == task[t].st = "done" /\ ~task[t].res.ok

C25_HelpersRunSideBySide ==
    /\ pc = "join" => \A t \in Helpers : task[t].st # "idle"
    /\ \A t \in Helpers :
          (pc = "join" /\ \E u \in Helpers \ {t} : Failed(u)) =>
              /\ (task[t].st = "llm" /\ call[t].st = "attempt") =>
                     ENABLED AttemptOk(t) /\ ENABLED AttemptFails(t)
              /\ (t = "web" /\ task[t].st = "llm" /\ call[t].st \in {"ok", "err"}) =>
                     ENABLED WebSearchReturns
              /\ (t = "msg" /\ task[t].st = "llm" /\ call[t].st \in {"ok", "err"}) =>
                     ENABLED MessageSearchReturns
              /\ task[t].st = "search" => ENABLED MessageSearchQuery
              /\ task[t].st # "done" => ~ENABLED JoinHelpers
    /\ error = "compile_contexts" =>
          /\ \A t \in Helpers : task[t].st = "done"
          /\ \E t \in Helpers : Failed(t)

\* The web-search helper failed, the message-search task ran its storage
\* search to a result, and compile_contexts has returned the error.
C25_Witness ==
    /\ error = "compile_contexts"
    /\ Failed("web")
    /\ task["msg"].res.ok
    /\ queries = 1

\* C26: the initial request of the assistant loop carries no
\* previous-response id (0 here); every continuation request carries the id
\* of the response received just before it, the one whose dispatch produced
\* the follow-up, and has exactly that follow-up payload as its input.
C26_ContinuationFollowsItsResponse ==
    /\ [](pc = "call_openai_api" =>
            /\ request.initial <=> requests = 1
            /\ request.initial =>
                  /\ request.previous_response_id = 0
                  /\ request.input = <<assistant_context>>
            /\ ~request.initial =>
                  /\ request.previous_response_id = response.id
                  /\ response.id = requests - 1
                  /\ request.input # <<>>)
    /\ [][(pc = "response_callback" /\ pc' = "loop") =>
            IF messages = <<>>
            THEN request_queue' = request_queue
            ELSE /\ request_queue' = Append(request_queue, Head(request_queue'))
                 /\ ~Head(request_queue').initial
                 /\ Head(request_queue').previous_response_id = response.id
                 /\ Head(request_queue').input = messages]_vars

\* The third request of a loop is in flight: it refers to the second
\* response and carries the outputs of the dispatch of that response.
C26_Witness ==
    /\ pc = "call_openai_api"
    /\ requests = 3
    /\ request.previous_response_id = 2
    /\ Len(request.input) >= 1
    /\ \A i \in DOMAIN request.input : request.input[i].type = "function_call_output"

\* C27: within one invocation of the assistant driver the queue of pending
\* requests never holds more than one request, a request is in flight only
\* while the queue is empty and nothing is being dispatched, and request
\* n + 1 is sent only after the dispatch of response n has completed.
C27_DriverIsSequential ==
    /\ Len(request_queue) <= 1
    /\ call["asst"].st # "idle" =>
          /\ pc = "call_openai_api"
          /\ request_queue = <<>>
          /\ pending = <<>>
          /\ messages = <<>>
          /\ dispatched = requests - 1
    /\ InCallback =>
          /\ call["asst"].st = "idle"
          /\ request_queue = <<>>
          /\ dispatched = requests
    /\ request_queue # <<>> => pc = "loop" /\ dispatched = requests

\* The second request is in flight after a dispatch that produced three
\* outputs: they travel in one request, and nothing else is queued.
C27_Witness ==
    /\ pc = "call_openai_api"
    /\ call["asst"].st = "attempt"
    /\ requests = 2
    /\ dispatched = 1
    /\ Len(request.input) = 3

\* C28: a successful parse returns exactly one element per text content of
\* a message and per function call of a built-in tool, in the order of the
\* output items and of the contents inside a message; web-search-call
\* items and items of any other kind add no element and cause no error:
\* the parse fails only on a refusal, on a function call that is not a
\* built-in tool, or on arguments that do not decode.
RECURSIVE ElementSources(_, _)
ElementSources(outputs, i) ==
    IF i > Len(outputs) THEN <<>>
    ELSE (CASE outputs[i].kind = "message" ->
                  [j \in 1..Len(outputs[i].content) |-> <<i, j>>]
            [] outputs[i].kind = "function_call" -> << <<i, 0>> >>
            [] OTHER -> <<>>)
         \o ElementSources(outputs, i + 1)

ElementOf(outputs, source) ==
    LET output == outputs[source[1]]
    IN  IF output.kind = "message"
        THEN LET text == output.content[source[2]].text
             IN  IF DecodeOk(text) THEN ResponseItem(Decode(text)) ELSE TextItem(text.raw)
        ELSE ResponseItem(
                IF output.name = "set_channel_directive"
                THEN UpdateChannelDirective(output.call_id, output.arguments.message)
                ELSE UpdateContext(output.call_id, output.arguments.message))

Parses(outputs) ==
    \A i \in DOMAIN outputs :
        /\ outputs[i].kind = "message" =>
              \A j \in DOMAIN outputs[i].content : outputs[i].content[j].ckind # "refusal"
        /\ outputs[i].kind = "function_call" =>
              outputs[i].name \in BuiltInTools /\ ArgsOk(outputs[i].arguments)

C28_OneElementPerTextAndCall ==
    pc = "parsed" =>
        /\ parsed.ok <=> Parses(response.output)
        /\ parsed.ok =>
              LET sources == ElementSources(response.output, 1)
              IN  /\ Len(parsed.v) = Len(sources)
                  /\ \A k \in DOMAIN sources :
                        parsed.v[k] = ElementOf(response.output, sources[k])

\* A message with a plain text and a structured reply, parsed next to a
\* web-search call: a Text element, then the reply, and nothing else.
C28_Witness ==
    /\ pc = "parsed"
    /\ parsed.ok
    /\ \E i \in DOMAIN response.output :
          response.output[i].kind = "message" /\ Len(response.output[i].content) = 2
    /\ \E i \in DOMAIN response.output : response.output[i].kind = "web_search_call"
    /\ Len(parsed.v) = 2
    /\ parsed.v[1].t = "Text"
    /\ parsed.v[2].t = "AssistantResponse"

\* C29: a text that does not decode as a structured action is never handed
\* to the callback: the callback gets one action per decoded action of the
\* response and none for its texts.  A response that holds nothing but such
\* texts leads to one invocation of the callback with no action at all, the
\* callback changes nothing and hands nothing back, no request is queued,
\* and the loop ends with Ok.
OnlyPlainText(resp) ==
    /\ resp.output # <<>>
    /\ \A i \in DOMAIN resp.output :
          /\ resp.output[i].kind = "message"
          /\ resp.output[i].content # <<>>
          /\ \A j \in DOMAIN resp.output[i].content :
                /\ resp.output[i].content[j].ckind = "output_text"
                /\ ~DecodeOk(resp.output[i].content[j].text)

DecodedActions(outputs) ==
    LET sources == ElementSources(outputs, 1)
    IN  Cardinality({k \in DOMAIN sources :
                        ElementOf(outputs, sources[k]).t = "AssistantResponse"})

C29_PlainTextIsNotDispatched ==
    /\ [][(pc = "call_openai_api" /\ pc' = "response_callback") =>
            /\ dispatched' = dispatched + 1
            /\ Len(pending') = DecodedActions(response'.output)
            /\ OnlyPlainText(response') => pending' = <<>>]_vars
    /\ [][(pc = "response_callback" /\ OnlyPlainText(response)) =>
            /\ pending = <<>> /\ messages = <<>>
            /\ pc' = "loop"
            /\ request_queue' = <<>>
            /\ UNCHANGED <<dbVars, chat, tool_calls, dispatched, requests, error>>]_vars
    /\ [][(pc = "loop" /\ OnlyPlainText(response)) =>
            pc' = "done_ok" /\ UNCHANGED <<dbVars, chat, requests, dispatched, error>>]_vars

\* The handling has ended with Ok after one request whose response held
\* two texts that do not decode: one dispatch, nothing sent, nothing stored.
C29_Witness ==
    /\ pc = "done_ok"
    /\ OnlyPlainText(response)
    /\ Len(response.output) = 2
    /\ requests = 1
    /\ dispatched = 1
    /\ chat = <<>>
    /\ context[event.channel] = <<>>

\* C30: before its first, second and third retry call_openai_api sleeps
\* 1000 ms, 2000 ms and 4000 ms, the base doubled with every retry: one
\* sleep after every failed attempt but the one that exhausts the retries,
\* after which it returns the error without sleeping.
FailedAttempts == Cardinality({i \in DOMAIN attempts : attempts[i].outcome # "ok"})

C30_BackoffDoubles ==
    \A c \in Callers :
        call[c].st # "idle" =>
            /\ \A n \in DOMAIN call[c].slept :
                  /\ n = 1 => call[c].slept[n] = 1000
                  /\ n > 1 => call[c].slept[n] = 2 * call[c].slept[n - 1]
            /\ call[c].slept = SubSeq(<<1000, 2000, 4000>>, 1, Len(call[c].slept))
            /\ call[c].st # "err" => Len(call[c].slept) = FailedAttempts
            /\ call[c].st = "err" =>
                  /\ FailedAttempts = MAX_RETRIES + 1
                  /\ Len(call[c].slept) = MAX_RETRIES

\* Three retries were slept for, 1 s, 2 s and 4 s, and the fourth attempt
\* has failed: the error is returned with no further sleep.
C30_Witness ==
    \E c \in Callers :
        /\ call[c].st = "err"
        /\ call[c].slept = <<1000, 2000, 4000>>
        /\ Len(attempts) = 4

\* C31: a search whose terms string holds nothing but commas and white
\* space, the empty string included, returns "[]" and does not go to the
\* store: whatever the store holds and whether or not it is failing, the
\* result is Ok with the empty list.
NoTermIn(search_terms) ==
    \A i \in DOMAIN search_terms : search_terms[i] = "," \/ IsWhitespace(search_terms[i])

C31_NoTermsNoQuery ==
    (db_op.name = "search_channel_messages" /\ NoTermIn(db_op.arg)) =>
        /\ returned = Ok(JsonList(<<>>))
        /\ \A bm25 \in IndexAnswers(RelatedTo(before.message, db_op.channel), db_op.arg) :
              ~search_channel_messages(bm25, RelatedTo(before.message, db_op.channel),
                                       db_op.arg).queried

\* A search for " ," in a channel that holds messages has returned "[]".
C31_Witness ==
    /\ db_op.name = "search_channel_messages"
    /\ db_op.arg = <<" ", ",">>
    /\ \A c \in Channels : message[c] # <<>>
    /\ returned = Ok(JsonList(<<>>))

\* C32: a successful search with at least one term returns only messages
\* of the given channel, each of which matches at least one of the terms,
\* at most 50 of them, in non-increasing order of their scores, the score
\* of a message being the sum of the scores the index gave it for the
\* single terms, whatever scores the index gave.
SumOfTermScores(bm25, text, terms, k) ==
    LET RECURSIVE sum(_)
        sum(n) == IF n = 0 THEN 0
                  ELSE sum(n - 1) + (IF <<text, terms[n]>> \in DOMAIN bm25
                                     THEN bm25[<<text, terms[n]>>] ELSE 0)
    IN  sum(k)

C32_SearchIsRankedAndCapped ==
    (db_op.name = "search_channel_messages" /\ returned.ok /\ ~NoTermIn(db_op.arg)) =>
        LET list == returned.v.list
            terms == SearchTerms(db_op.arg)
            stored == before.message[db_op.channel]
            score(text) == SumOfTermScores(before.bm25, text, terms, Len(terms))
        IN  /\ \A i \in DOMAIN list :
                  /\ \E k \in DOMAIN terms : Contains(list[i], terms[k])
                  /\ Occurrences(list, list[i]) <= Occurrences(stored, list[i])
            /\ Len(list) <= 50
            /\ \A i \in 1..(Len(list) - 1) : score(list[i]) >= score(list[i + 1])

\* A channel holds 52 messages that match the terms, the one stored last
\* with the highest score, and the other channel holds different messages:
\* the search has returned 50, that one first.
C32_Witness ==
    /\ db_op.name = "search_channel_messages"
    /\ returned.ok
    /\ Len(message[db_op.channel]) = 52
    /\ \E c \in Channels : message[c] # <<>> /\ message[c][1] # message[db_op.channel][1]
    /\ \A i \in DOMAIN message[db_op.channel] :
          \E k \in DOMAIN SearchTerms(db_op.arg) :
              Contains(message[db_op.channel][i], SearchTerms(db_op.arg)[k])
    /\ Len(returned.v.list) = 50
    /\ returned.v.list[1] = message[db_op.channel][52]
    /\ returned.v.list[1] # returned.v.list[50]
    /\ SumOfTermScores(before.bm25, returned.v.list[1], SearchTerms(db_op.arg),
                       Len(SearchTerms(db_op.arg)))
          > SumOfTermScores(before.bm25, returned.v.list[50], SearchTerms(db_op.arg),
                            Len(SearchTerms(db_op.arg)))

\* C33: handle_push_event starts the message storage exactly once for every
\* message event that carries a channel id, whether or not the event is
\* then skipped for triage because it mentions the bot or is in a thread,
\* and never for an app-mention event.
C33_EveryMessageIsStoredOnce ==
    \A i \in DOMAIN push.handled :
        LET h == push.handled[i]
        IN  /\ (h.event.kind = "message" /\ h.event.channel # "") => h.storage = 1
            /\ h.event.kind # "message" => h.storage = 0
            /\ h.event.channel = "" => h.storage = 0

\* A message in a thread that mentions the bot has been handled: storage
\* was started, triage was not.
C33_Witness ==
    /\ push.deliveries = <<>>
    /\ \E i \in DOMAIN push.handled :
          /\ push.handled[i].event.kind = "message"
          /\ push.handled[i].event.thread_ts # Absent
          /\ Contains(push.handled[i].event.text, <<"U","1">>)
          /\ push.handled[i].storage = 1
          /\ push.handled[i].chat_event = 0

\* C34: a message event starts the chat-event pipeline only if its text
\* does not contain the bot user id and it is not in a thread (and then it
\* does, once); every app-mention event starts it once; so a message that
\* mentions the bot, delivered as a message event and as an app-mention
\* event, is triaged exactly once.
RECURSIVE ChatEventsStarted(_)
ChatEventsStarted(handled) ==
    IF handled = <<>> THEN 0
    ELSE Head(handled).chat_event + ChatEventsStarted(Tail(handled))

C34_MentionsAreTriagedOnce ==
    /\ \A i \in DOMAIN push.handled :
          LET h == push.handled[i]
              done == i < Len(push.handled) \/ push.at = "idle"
          IN  /\ h.event.kind = "app_mention" => h.chat_event = 1
              /\ (h.event.kind = "message" /\ done) =>
                    (h.chat_event = 1 <=>
                        /\ h.event.channel # ""
                        /\ ~Contains(h.event.text, <<"U","1">>)
                        /\ h.event.thread_ts = Absent)
              /\ h.chat_event \in {0, 1}
    /\ (push.deliveries = <<>> /\ Len(push.handled) = 2) => ChatEventsStarted(push.handled) = 1

\* Both events of a message that mentions the bot have been handled, the
\* app mention first: one triage.
C34_Witness ==
    /\ push.deliveries = <<>>
    /\ Len(push.handled) = 2
    /\ push.handled[1].event.kind = "app_mention"
    /\ push.handled[2].event.kind = "message"
    /\ ChatEventsStarted(push.handled) = 1

\* C35: the chat-event task and the message-storage task of one top-level
\* message both call get_or_create_channel for a channel with no record;
\* in every interleaving of their selects and creates both calls succeed:
\* a task that selected no record still finds none when it creates, and a
\* task that is past the call finds the record.
TasksOfTopLevelMessage == {2, 3}

C35_BothCallsFindOrCreate ==
    \A t \in TasksOfTopLevelMessage :
        LET c == handling[t].event.channel
        IN  /\ handling[t].pc = "create_channel" => channel[c] = NoChannel
            /\ handling[t].pc \in {"get_channel_context", "add_channel_message"}
                    => channel[c] # NoChannel

\* C36: the context entries that the handlings of two events of one
\* channel add are all stored: whatever the interleaving of the tasks, the
\* entries of the channel are the entries added, each as often as it was
\* added.
C36_NoAppendIsLost ==
    \A c \in Channels :
        /\ Len(context[c]) = Len(created[c])
        /\ \A i \in DOMAIN created[c] :
              Occurrences(context[c], created[c][i]) = Occurrences(created[c], created[c][i])

\* Both chat tasks are in the callback of a response at the same time and
\* each has added its entry.
C36_Witness ==
    /\ \A t \in ChatTasks : handling[t].pc = "response_callback" /\ handling[t].outputs = 1
    /\ Len(created["C1"]) = 2
    /\ created["C1"][1].your_notes # created["C1"][2].your_notes
    /\ Len(context["C1"]) = 2

\* C37: the callback applies the actions of a response in the order the
\* model emitted them: the actions still to apply are the last ones of the
\* response, an effect is the effect of the first of them, and the outputs
\* collected are those of the tool actions applied, in order.  No step,
\* failing or not, takes back an effect: the context entries and the chat
\* calls only grow, the tool invocations are not uncounted, and the
\* directive changes only when an UpdateChannelDirective is applied.
Emitted == SelectSeq(parsed.v, LAMBDA item : item.t = "AssistantResponse")

AnswersTheModel(action) ==
    action.type \in {"UpdateChannelDirective", "UpdateContext", "McpTool"}

IsPrefixOf(old, new) ==
    Len(old) <= Len(new) /\ old = SubSeq(new, 1, Len(old))

AppliedInOrder ==
    InCallback =>
        LET n == Len(Emitted) - Len(pending)
            applied == SelectSeq([i \in 1..n |-> Emitted[i].r], AnswersTheModel)
        IN  /\ n >= 0
            /\ pending = [i \in 1..Len(pending) |-> Emitted[n + i].r]
            /\ [i \in 1..Len(messages) |-> messages[i].call_id]
                  = [i \in 1..Len(applied) |-> applied[i].call_id]

C37_InOrderAndNotUndone ==
    [][ /\ AppliedInOrder /\ AppliedInOrder'
        /\ IsSubsequence(context[event.channel], context'[event.channel])
        /\ IsPrefixOf(chat, chat')
        /\ tool_calls' >= tool_calls
        /\ channel' # channel =>
              \/ pc = "create_channel"
              \/ /\ pc = "response_callback" /\ pc' = "response_callback"
                 /\ pending # <<>>
                 /\ Head(pending).type = "UpdateChannelDirective"
        /\ context' # context =>
              /\ pc = "response_callback" /\ pc' = "response_callback"
              /\ pending # <<>>
              /\ Head(pending).type = "UpdateContext"
        /\ tool_calls' # tool_calls =>
              pc = "response_callback" /\ pending # <<>> /\ Head(pending).type = "McpTool"
        /\ chat' # chat =>
              InCallback /\ pending # <<>> /\ Head(pending).type = "ReplyToThread"
        /\ (error = "" /\ error' # "") => (channel' = channel /\ context' = context)
      ]_vars

\* The directive was written and the tool called for the first two actions
\* of a response, then adding the context entry of the third failed.
C37_Witness ==
    /\ pc = "done_err"
    /\ error = "add_channel_context"
    /\ tool_calls = 1
    /\ Len(messages) = 2
    /\ messages[1].call_id = "c1"
    /\ channel[event.channel].your_notes = "n1"

\* C38: the dispatch of a ReplyToThread makes two calls on the chat client,
\* in this order: the reaction, then one send_message to the channel of the
\* event and the thread of the action with the action's message.  Whether
\* the reaction succeeded changes nothing: the send is the next thing the
\* handling does.  A send that succeeded lets the callback go on with the
\* next action, a send that failed ends the handling with the error of
\* send_message.
C38_ReactThenSendOnce ==
    [][ /\ (pc = "response_callback" /\ pending # <<>> /\ Head(pending).type = "ReplyToThread") =>
              /\ chat' = Append(chat, chat'[Len(chat) + 1])
              /\ chat'[Len(chat')].op = "react_to_message"
              /\ chat'[Len(chat')].channel = event.channel
              /\ chat'[Len(chat')].thread_ts = Head(pending).thread_ts
              /\ pc' = "send_message" /\ error' = "" /\ pending' = pending
        /\ pc = "send_message" =>
              /\ chat # <<>> /\ chat[Len(chat)].op = "react_to_message"
              /\ chat' = Append(chat, chat'[Len(chat) + 1])
              /\ LET send == chat'[Len(chat')]
                 IN  /\ send.op = "send_message"
                     /\ send.channel = event.channel
                     /\ send.thread_ts = Head(pending).thread_ts
                     /\ send.text = Head(pending).message
                     /\ IF send.ok
                        THEN pending' = Tail(pending) /\ pc' = "response_callback" /\ error' = ""
                        ELSE pc' = "done_err" /\ error' = "send_message"
        /\ (chat' # chat /\ chat'[Len(chat')].op = "send_message") => pc = "send_message"
      ]_vars

\* A reaction failed and the message was sent all the same; the callback
\* has gone on.
C38_Witness ==
    /\ pc \in {"response_callback", "loop", "done_ok"}
    /\ error = ""
    /\ Len(chat) = 2
    /\ chat[1].op = "react_to_message" /\ ~chat[1].ok
    /\ chat[2].op = "send_message" /\ chat[2].ok
    /\ chat[2].channel = event.channel

\* C39: the tools offered to the model are decided from the triggering
\* message when the initial request is built: every request of the
\* invocation, the initial one and every chained one, sent or queued,
\* offers the built-in tools if that message contains "remember" or
\* "directive" and no tool otherwise, whatever the follow-up payload is;
\* a request that is sent offers what the request before it offered.
ToolsOfTheMessage ==
    IF Contains(assistant_context.user_message, <<"r","e","m","e","m","b","e","r">>)
       \/ Contains(assistant_context.user_message, <<"d","i","r","e","c","t","i","v","e">>)
    THEN {"set_channel_directive", "update_channel_context"}
    ELSE {}

C39_ToolsAreDecidedOnce ==
    [][ /\ \A i \in DOMAIN request_queue' : request_queue'[i].tools = ToolsOfTheMessage'
        /\ requests' >= 1 => request'.tools = ToolsOfTheMessage'
        /\ (requests >= 1 /\ requests' = requests + 1) => request'.tools = request.tools
      ]_vars

\* A chained request was sent for a message that asks for nothing to be
\* remembered: it hands back the output of a context update and offers no
\* tool, as the initial request did.
C39_Witness ==
    /\ requests = 2
    /\ ~request.initial
    /\ request.previous_response_id # 0
    /\ request.tools = {}
    /\ request.input # <<>>
    /\ \E i \in DOMAIN request.input : request.input[i].output = "Context updated successfully."

====
